---------------------------- MODULE Spec2Model ----------------------------
(***************************************************************************)
(* Detessellate: SketchReProfile (reconstruction of circles, arcs, lines   *)
(* and splines from tessellated sketch edges) and SketcherWireDoctor       *)
(* (phased wire-topology diagnosis and its fix actions).                   *)
(*                                                                         *)
(* Coordinates.  A sketch coordinate is the fixed-point number             *)
(*     x * Grid + o * Fine     (Fine = 1e-7 mm, Grid = 1 mm)               *)
(* and a point is the triple <<x, y, o>>: x and y are the grid node, o is  *)
(* a fine offset along the x axis.  Every tolerance of the code that is    *)
(* at most 1e-3 mm is decided by the offsets of points on one node; every  *)
(* length and every direction is decided by the nodes (an offset of a few  *)
(* 1e-7 mm moves a length by less than 1e-5 of LengthTol and a direction   *)
(* by less than 1e-4 degree).                                              *)
(*                                                                         *)
(* Style.  A value that is used several times is handed to an operator as  *)
(* an argument instead of being named in a LET, and a loop of the code is  *)
(* an operator for one pass of its body plus an operator that runs n       *)
(* passes by halving n.                                                    *)
(***************************************************************************)
EXTENDS Integers, Sequences, FiniteSets, TLC

(***************************************************************************)
(* Bounds of the model                                                     *)
(***************************************************************************)
MaxChain == 4
MaxNear == 2

(***************************************************************************)
(* Program constants, in the model's units                                 *)
(* (offsets: 1e-7 mm, lengths: 1e-3 mm, angles: 1e-3 degree)               *)
(***************************************************************************)
MergeTol == 10
LengthTol == 1
ArcAngleTol == 1500
ColinearAngleTol == 10
ColinearMinRun == 2
SplineAngleThreshold == 15000
SplineMinRun == 4
WalkCap == 100
MinPolyVertices == 3
MinArcRun == 3
ToggleTol == 10
CoincidentTol == 50

(***************************************************************************)
(* Arithmetic helpers                                                      *)
(***************************************************************************)
Abs(n) == IF n < 0 THEN -n ELSE n

Min2(a, b) == IF a <= b THEN a ELSE b

Max2(a, b) == IF a >= b THEN a ELSE b

RECURSIVE SqrtBisect(_, _, _)
SqrtBisect(n, lo, hi) ==
    IF hi - lo <= 1 THEN lo
    ELSE IF ((lo + hi) \div 2) * ((lo + hi) \div 2) <= n
         THEN SqrtBisect(n, (lo + hi) \div 2, hi)
         ELSE SqrtBisect(n, lo, (lo + hi) \div 2)

\* floor(sqrt(n)) for 0 <= n < 2^31
ISqrt(n) == SqrtBisect(n, 0, 46341)

\* math.hypot(dx, dy) of two grid differences, in units of 1e-3 mm
Hypot(dx, dy) == ISqrt((dx * dx + dy * dy) * 1000000)

RECURSIVE Gcd(_, _)
Gcd(a, b) == IF b = 0 THEN a ELSE Gcd(b, a % b)

\* atan(b / a) in 1e-3 degree for a reduced fraction with 0 <= b <= a
OctantTable(a, b) ==
    CASE b = 0 -> 0
      [] a = 1 /\ b = 1 -> 45000
      [] a = 2 /\ b = 1 -> 26565
      [] a = 3 /\ b = 1 -> 18435
      [] a = 3 /\ b = 2 -> 33690
      [] a = 4 /\ b = 1 -> 14036
      [] a = 4 /\ b = 3 -> 36870

Reduced(p, q, g) == OctantTable(p \div g, q \div g)

\* atan(q / p) in 1e-3 degree for 0 <= q <= p, p > 0 (first octant)
AtanOctant(p, q) == Reduced(p, q, Gcd(p, q))

OctantToQuadrant(steep, a) == IF steep THEN 90000 - a ELSE a

\* atan of the first quadrant, dx >= 0, dy >= 0, not both 0
AtanQuadrant(dx, dy) == OctantToQuadrant(dy > dx, AtanOctant(Max2(dx, dy), Min2(dx, dy)))

QuadrantToCircle(dy, dx, a) ==
    CASE dx >= 0 /\ dy >= 0 -> a
      [] dx < 0 /\ dy >= 0 -> 180000 - a
      [] dx < 0 /\ dy < 0 -> a - 180000
      [] dx >= 0 /\ dy < 0 -> -a

\* math.degrees(math.atan2(dy, dx)) in 1e-3 degree, in (-180000, 180000];
\* atan2(0, 0) = 0
Atan2Deg(dy, dx) ==
    IF dx = 0 /\ dy = 0 THEN 0
    ELSE QuadrantToCircle(dy, dx, AtanQuadrant(Abs(dx), Abs(dy)))

\* the unsigned angle between two directions that differ by d
FoldAngle(d) == IF d > 180000 THEN 360000 - d ELSE d

(***************************************************************************)
(* Sequence helpers                                                        *)
(***************************************************************************)
Range(s) == {s[i] : i \in 1..Len(s)}

InSeq(x, s) == \E i \in 1..Len(s) : s[i] = x

\* index of the first element of s that satisfies Test, 0 if none
FirstIndex(s, Test(_)) ==
    IF \E i \in 1..Len(s) : Test(s[i])
    THEN CHOOSE i \in 1..Len(s) : Test(s[i]) /\ \A j \in 1..(i - 1) : ~Test(s[j])
    ELSE 0

\* the positions 1..n as a sequence
Positions(n) == [i \in 1..n |-> i]

RECURSIVE SumRange(_, _, _)
SumRange(s, lo, hi) ==
    IF lo > hi THEN 0
    ELSE IF lo = hi THEN s[lo]
    ELSE SumRange(s, lo, (lo + hi) \div 2) + SumRange(s, ((lo + hi) \div 2) + 1, hi)

SeqSum(s) == SumRange(s, 1, Len(s))

SeqMax(s) == CHOOSE m \in Range(s) : \A x \in Range(s) : x <= m

SeqMin(s) == CHOOSE m \in Range(s) : \A x \in Range(s) : m <= x

(***************************************************************************)
(* Points and edges (SketchReProfile.extract_edge_data)                    *)
(***************************************************************************)
GridUnits == 10000000

NoPoint == <<>>

Origin == <<0, 0, 0>>

\* the x and y coordinate of a point in units of 1e-7 mm
CoordX(p) == p[1] * GridUnits + p[3]

CoordY(p) == p[2] * GridUnits

SameNode(p, q) == p[1] = q[1] /\ p[2] = q[2]

Line(s, t) == [type |-> "line", start |-> s, end |-> t]

\* direction vector end - start of an edge: the grid difference, or, for an
\* edge inside one node, the direction of its offsets
EdgeVec(e) ==
    IF SameNode(e.start, e.end)
    THEN <<IF e.end[3] > e.start[3] THEN 1
           ELSE IF e.end[3] < e.start[3] THEN -1 ELSE 0, 0>>
    ELSE <<e.end[1] - e.start[1], e.end[2] - e.start[2]>>

calculate_edge_length(e) ==
    IF e.type # "line" THEN 0
    ELSE IF SameNode(e.start, e.end)
         THEN Abs(e.end[3] - e.start[3]) \div 10000
         ELSE Hypot(e.end[1] - e.start[1], e.end[2] - e.start[2])

(***************************************************************************)
(* find_connected_vertices: first-fit grouping of the endpoints            *)
(***************************************************************************)
WithinMergeTol(pt, p) ==
    /\ Abs(CoordX(pt) - CoordX(p)) < MergeTol
    /\ Abs(CoordY(pt) - CoordY(p)) < MergeTol

\* [e['start'], e['end']] for e in edges
EndpointList(es) ==
    [k \in 1..(2 * Len(es)) |->
        IF k % 2 = 1 THEN es[(k + 1) \div 2].start ELSE es[k \div 2].end]

\* pt joins group i, or opens a new group when i = 0
PutInGroup(groups, i, pt) ==
    IF i = 0 THEN Append(groups, <<pt>>)
    ELSE [groups EXCEPT ![i] = Append(@, pt)]

RECURSIVE GroupPoints(_, _)
GroupPoints(pts, groups) ==
    IF pts = <<>> THEN groups
    ELSE LET Hit(g) == \E k \in 1..Len(g) : WithinMergeTol(Head(pts), g[k])
         IN  GroupPoints(Tail(pts), PutInGroup(groups, FirstIndex(groups, Hit), Head(pts)))

\* mapping = {pt: g[0] for g in groups for pt in g}: the last group that
\* holds pt wins
MappingOf(groups, pts) ==
    [pt \in Range(pts) |->
        groups[CHOOSE i \in 1..Len(groups) :
                   /\ InSeq(pt, groups[i])
                   /\ \A j \in (i + 1)..Len(groups) : ~InSeq(pt, groups[j])][1]]

find_connected_vertices(es) ==
    MappingOf(GroupPoints(EndpointList(es), <<>>), EndpointList(es))

MergeEdges(es, map) ==
    [i \in 1..Len(es) |->
        [es[i] EXCEPT !.start = map[es[i].start], !.end = map[es[i].end]]]

(***************************************************************************)
(* build_graph: adjacency lists in insertion order, and the edge lookup    *)
(***************************************************************************)
NbrsAt(g, i) == IF i = 0 THEN <<>> ELSE g[i].nbrs

Adj(g, v) ==
    LET IsV(r) == r.v = v
    IN  NbrsAt(g, FirstIndex(g, IsV))

\* graph.setdefault(s, []).append(t), s being entry i of the graph (0: new)
PutNbr(g, i, s, t) ==
    IF i = 0 THEN Append(g, [v |-> s, nbrs |-> <<t>>])
    ELSE [g EXCEPT ![i].nbrs = Append(@, t)]

GraphAppend(g, s, t) ==
    LET IsS(r) == r.v = s
    IN  PutNbr(g, FirstIndex(g, IsS), s, t)

RECURSIVE GraphFrom(_, _)
GraphFrom(es, g) ==
    IF es = <<>> THEN g
    ELSE GraphFrom(Tail(es),
             IF Head(es).start # Head(es).end
             THEN GraphAppend(GraphAppend(g, Head(es).start, Head(es).end),
                              Head(es).end, Head(es).start)
             ELSE g)

build_graph(es) == GraphFrom(es, <<>>)

LastOf(hits) == IF hits = {} THEN 0 ELSE CHOOSE i \in hits : \A j \in hits : j <= i

\* lookup[(s, t)]: the last edge inserted between s and t, 0 when there is none
EdgeLookup(es, s, t) ==
    LastOf({i \in 1..Len(es) :
               /\ es[i].start # es[i].end
               /\ \/ es[i].start = s /\ es[i].end = t
                  \/ es[i].start = t /\ es[i].end = s})

(***************************************************************************)
(* detect_polygons: the greedy walk                                        *)
(***************************************************************************)
\* poly2 is poly with curr appended, next_v the neighbours of curr but prev
WalkDecide(v, w, poly2, next_v) ==
    IF next_v = <<>> \/ (next_v[1] = v /\ Len(poly2) >= MinPolyVertices)
    THEN [w EXCEPT !.poly = poly2, !.done = TRUE]
    ELSE [poly |-> poly2, curr |-> next_v[1], prev |-> w.curr, done |-> FALSE]

\* one pass of the body of "for _ in range(100)"; w.done: the loop was left
\* by break
WalkStep(g, v, w) ==
    IF w.done THEN w
    ELSE LET NotPrev(n) == n # w.prev
         IN  WalkDecide(v, w, Append(w.poly, w.curr), SelectSeq(Adj(g, w.curr), NotPrev))

RECURSIVE WalkPasses(_, _, _, _)
WalkRest(g, v, half, n) == IF half.done THEN half ELSE WalkPasses(g, v, half, n)

\* n passes of the loop body
WalkPasses(g, v, w, n) ==
    IF n = 0 THEN w
    ELSE IF n = 1 THEN WalkStep(g, v, w)
    ELSE WalkRest(g, v, WalkPasses(g, v, w, n \div 2), n - (n \div 2))

GreedyWalk(g, v) ==
    WalkPasses(g, v, [poly |-> <<>>, curr |-> v, prev |-> NoPoint, done |-> FALSE],
               WalkCap).poly

\* the edges found in the lookup for the consecutive vertex pairs of poly, the
\* pair (last, first) included; a missing pair is skipped
PolyEdges(es, poly) ==
    LET Found(k) == k # 0
    IN  SelectSeq([i \in 1..Len(poly) |->
                      EdgeLookup(es, poly[i], poly[(i % Len(poly)) + 1])], Found)

\* if len(poly) >= 3: ... if edges: polys.append(...)
AddPolygon(polys, poly, pedges) ==
    IF Len(poly) >= MinPolyVertices /\ pedges # <<>>
    THEN Append(polys, [vertices |-> poly, edges |-> pedges])
    ELSE polys

RECURSIVE DetectFrom(_, _, _, _, _)
DetectWalked(g, es, i, visited, polys, poly) ==
    DetectFrom(g, es, i + 1, visited \cup Range(poly),
               AddPolygon(polys, poly, PolyEdges(es, poly)))

DetectFrom(g, es, i, visited, polys) ==
    IF i > Len(g) THEN polys
    ELSE IF g[i].v \in visited THEN DetectFrom(g, es, i + 1, visited, polys)
    ELSE DetectWalked(g, es, i, visited, polys, GreedyWalk(g, g[i].v))

detect_polygons(g, es) == DetectFrom(g, es, 1, {}, <<>>)

(***************************************************************************)
(* Equilateral polygons and the circle fit                                 *)
(***************************************************************************)
EdgeLengths(es, idxs) == [k \in 1..Len(idxs) |-> calculate_edge_length(es[idxs[k]])]

\* stats['range'] <= tolerance
RangeWithinTol(lengths) == SeqMax(lengths) - SeqMin(lengths) <= LengthTol

is_equilateral_polygon(es, polygon) == RangeWithinTol(EdgeLengths(es, polygon.edges))

analyze_equilateral(es, polys) ==
    LET IsEqui(poly) == is_equilateral_polygon(es, poly)
    IN  SelectSeq(polys, IsEqui)

Cross(a, b, c) ==
    (b[1] - a[1]) * (c[2] - a[2]) - (b[2] - a[2]) * (c[1] - a[1])

Colinear(verts) ==
    \A i, j, k \in 1..Len(verts) : Cross(verts[i], verts[j], verts[k]) = 0

\* a centre that lies on no grid node
OffGrid == <<100, 100, 0>>

Dist2(p, c) == (p[1] - c[1]) * (p[1] - c[1]) + (p[2] - c[2]) * (p[2] - c[2])

\* the normal equations of the least-squares fit hold at the centre c, where
\* d are the coordinate differences to c and r2 the squared distances to c
NormalEquation(d, r2) ==
    Len(d) * SeqSum([i \in 1..Len(d) |-> d[i] * r2[i]]) = SeqSum(d) * SeqSum(r2)

\* the least-squares centre (h, k) of best_fit_circle is the node c
CentreIs(verts, c) ==
    /\ NormalEquation([i \in 1..Len(verts) |-> verts[i][1] - c[1]],
                      [i \in 1..Len(verts) |-> Dist2(verts[i], c)])
    /\ NormalEquation([i \in 1..Len(verts) |-> verts[i][2] - c[2]],
                      [i \in 1..Len(verts) |-> Dist2(verts[i], c)])

NodeOrOffGrid(on) == IF on = {} THEN OffGrid ELSE CHOOSE c \in on : TRUE

\* the nodes of the bounding box of the vertices
BoxNodes(xs, ys) ==
    {<<x, y, 0>> : x \in SeqMin(xs)..SeqMax(xs), y \in SeqMin(ys)..SeqMax(ys)}

\* the centre returned by best_fit_circle for vertices that are not colinear
FitCentre(verts) ==
    NodeOrOffGrid({c \in BoxNodes([i \in 1..Len(verts) |-> verts[i][1]],
                                  [i \in 1..Len(verts) |-> verts[i][2]]) :
                      CentreIs(verts, c)})

\* best_fit_circle: numpy.linalg.solve raises on the singular system of
\* colinear points and the function returns (None, None)
best_fit_circle(verts) ==
    IF Colinear(verts) THEN [ok |-> FALSE, center |-> NoPoint]
    ELSE [ok |-> TRUE, center |-> FitCentre(verts)]

(***************************************************************************)
(* find_partial_regular_edge_runs                                          *)
(***************************************************************************)
IsZeroVec(u) == u[1] = 0 /\ u[2] = 0

\* degrees(acos(unit(u) . unit(v))): the unsigned angle between two vectors;
\* unit() of the zero vector is (0, 0) and acos(0) is 90 degrees
vector_angle(u, v) ==
    IF IsZeroVec(u) \/ IsZeroVec(v) THEN 90000
    ELSE FoldAngle(Abs(Atan2Deg(u[2], u[1]) - Atan2Deg(v[2], v[1])))

\* g.last_angle < 0 while the list angles is empty
GrowAngle(g, k, v2, angle) ==
    IF g.last_angle < 0 \/ Abs(angle - g.last_angle) <= ArcAngleTol
    THEN [run |-> Append(g.run, k), j |-> g.j + 1, v1 |-> v2,
          last_angle |-> angle, done |-> FALSE]
    ELSE [g EXCEPT !.done = TRUE]

\* the edge curr = es[k] is tried as the next edge of the run
GrowEdge(g, k, curr, base_len) ==
    IF Abs(calculate_edge_length(curr) - base_len) > LengthTol
    THEN [g EXCEPT !.done = TRUE]
    ELSE GrowAngle(g, k, EdgeVec(curr), vector_angle(g.v1, EdgeVec(curr)))

\* one pass of the inner "while j < n"; g.j is the 1-based position of the
\* next edge
GrowStep(es, pe, base_len, g) ==
    IF g.done \/ g.j > Len(pe) THEN [g EXCEPT !.done = TRUE]
    ELSE GrowEdge(g, pe[g.j], es[pe[g.j]], base_len)

RECURSIVE GrowPasses(_, _, _, _, _)
GrowRest(es, pe, base_len, half, n) ==
    IF half.done THEN half ELSE GrowPasses(es, pe, base_len, half, n)

GrowPasses(es, pe, base_len, g, n) ==
    IF n = 0 THEN g
    ELSE IF n = 1 THEN GrowStep(es, pe, base_len, g)
    ELSE GrowRest(es, pe, base_len, GrowPasses(es, pe, base_len, g, n \div 2),
                  n - (n \div 2))

GrowRun(es, pe, i) ==
    GrowPasses(es, pe, calculate_edge_length(es[pe[i]]),
               [run |-> <<pe[i]>>, j |-> i + 1, v1 |-> EdgeVec(es[pe[i]]),
                last_angle |-> -1, done |-> FALSE],
               Len(pe))

\* if len(run) >= 3: runs.append(...); i = j  else: i += 1
KeepRun(r, g) ==
    IF Len(g.run) >= MinArcRun
    THEN [i |-> g.j, runs |-> Append(r.runs, g.run)]
    ELSE [i |-> r.i + 1, runs |-> r.runs]

\* one pass of the outer "while i < n - 2"; r.i is the 1-based position of
\* the first edge of the run that is tried
PartialStep(es, pe, r) ==
    IF r.i > Len(pe) - 2 THEN r ELSE KeepRun(r, GrowRun(es, pe, r.i))

RECURSIVE PartialPasses(_, _, _, _)
PartialRest(es, pe, half, n) ==
    IF half.i > Len(pe) - 2 THEN half ELSE PartialPasses(es, pe, half, n)

PartialPasses(es, pe, r, n) ==
    IF n = 0 THEN r
    ELSE IF n = 1 THEN PartialStep(es, pe, r)
    ELSE PartialRest(es, pe, PartialPasses(es, pe, r, n \div 2), n - (n \div 2))

find_partial_regular_edge_runs(es, polygon) ==
    PartialPasses(es, polygon.edges, [i |-> 1, runs |-> <<>>], Len(polygon.edges)).runs

(***************************************************************************)
(* fit_arc_by_3_points_from_chain and the host's Part.Arc                  *)
(***************************************************************************)
RECURSIVE ConnRange(_, _, _, _, _)
ConnRest(es, idxs, lo, hi, half) ==
    IF half = <<>> THEN half ELSE ConnRange(es, idxs, lo, hi, half)

\* conn after the edges idxs[lo..hi] have been entered
ConnRange(es, idxs, lo, hi, conn) ==
    IF lo > hi THEN conn
    ELSE IF lo = hi
    THEN GraphAppend(GraphAppend(conn, es[idxs[lo]].start, es[idxs[lo]].end),
                     es[idxs[lo]].end, es[idxs[lo]].start)
    ELSE ConnRest(es, idxs, ((lo + hi) \div 2) + 1, hi,
                  ConnRange(es, idxs, lo, (lo + hi) \div 2, conn))

ConnFrom(es, idxs) == ConnRange(es, idxs, 1, Len(idxs), <<>>)

\* the vertices of conn with exactly one neighbour
ChainEnds(conn) ==
    LET IsEnd(r) == Len(r.nbrs) = 1
    IN  SelectSeq(conn, IsEnd)

FirstOrNone(nbrs) == IF nbrs = <<>> THEN NoPoint ELSE nbrs[1]

\* while current and current not in visited: ...
RECURSIVE ChainPath(_, _, _)
ChainPath(conn, current, path) ==
    IF current = NoPoint \/ InSeq(current, path) THEN path
    ELSE LET Fresh(n) == ~InSeq(n, path) /\ n # current
         IN  ChainPath(conn, FirstOrNone(SelectSeq(Adj(conn, current), Fresh)),
                       Append(path, current))

\* ok = FALSE is the ValueError "Not enough vertices to define an arc"
ThreePoints(path) ==
    IF Len(path) < 3 THEN [ok |-> FALSE, p0 |-> NoPoint, pm |-> NoPoint, p2 |-> NoPoint]
    ELSE [ok |-> TRUE, p0 |-> path[1], pm |-> path[(Len(path) \div 2) + 1],
          p2 |-> path[Len(path)]]

ChainStart(conn, ends) == IF Len(ends) = 2 THEN ends[1].v ELSE conn[1].v

WalkChain(conn) == ChainPath(conn, ChainStart(conn, ChainEnds(conn)), <<>>)

fit_arc_by_3_points_from_chain(es, run) == ThreePoints(WalkChain(ConnFrom(es, run)))

\* Part.Arc(start, mid, end) raises for three points on one line
HostArcOk(p0, pm, p2) == Cross(p0, pm, p2) # 0

\* Part.LineSegment(p, q) raises "Both points are equal"
HostLineOk(p, q) == p # q

(***************************************************************************)
(* find_colinear_edge_runs                                                 *)
(***************************************************************************)
compute_angle(e) == Atan2Deg(EdgeVec(e)[2], EdgeVec(e)[1])

\* the candidate edge of find_colinear_edge_runs qualifies: only the run's own
\* used_edge_ids are consulted
ColinearQualifies(es, k, used_edge_ids, base_angle) ==
    /\ k # 0
    /\ k \notin used_edge_ids
    /\ es[k].type = "line"
    /\ Abs(compute_angle(es[k]) - base_angle) <= ColinearAngleTol

RECURSIVE ColinearExtend(_, _, _, _, _)
\* candidate i of cands is the next vertex (none when i = 0), k its edge
ColinearTake(es, g, base_angle, st, next_vertex, k) ==
    ColinearExtend(es, g, next_vertex, base_angle,
                   [run |-> Append(st.run, k), used |-> st.used \cup {k}])

ColinearPick(es, g, current_vertex, base_angle, st, cands, i) ==
    IF i = 0 THEN st
    ELSE ColinearTake(es, g, base_angle, st, cands[i],
                      EdgeLookup(es, current_vertex, cands[i]))

\* the while True loop that follows the chain from current_vertex
ColinearExtend(es, g, current_vertex, base_angle, st) ==
    LET Qual(c) == /\ c # current_vertex
                   /\ ColinearQualifies(es, EdgeLookup(es, current_vertex, c),
                                        st.used, base_angle)
    IN  ColinearPick(es, g, current_vertex, base_angle, st, Adj(g, current_vertex),
                     FirstIndex(Adj(g, current_vertex), Qual))

\* the run seeded by edge s, extended from its start and then from its end
ColinearRunOf(es, g, s, used_edge_ids) ==
    ColinearExtend(es, g, es[s].end, compute_angle(es[s]),
        ColinearExtend(es, g, es[s].start, compute_angle(es[s]),
            [run |-> <<s>>, used |-> used_edge_ids \cup {s}]))

RECURSIVE ColinearFrom(_, _, _, _, _)
ColinearKeep(es, g, unused, runs, st) ==
    IF Len(st.run) >= ColinearMinRun
    THEN ColinearFrom(es, g, unused, st.used, Append(runs, st.run))
    ELSE ColinearFrom(es, g, unused, st.used \ Range(st.run), runs)

ColinearFrom(es, g, unused, used_edge_ids, runs) ==
    IF unused = <<>> THEN runs
    ELSE IF Head(unused) \in used_edge_ids \/ es[Head(unused)].type # "line"
    THEN ColinearFrom(es, g, Tail(unused), used_edge_ids, runs)
    ELSE ColinearKeep(es, g, Tail(unused), runs,
                      ColinearRunOf(es, g, Head(unused), used_edge_ids))

find_colinear_edge_runs(es, g, unused) == ColinearFrom(es, g, unused, {}, <<>>)

\* pts[0] and pts[-1] of draw_colinear_lines
ColinearLineEnds(es, run) == <<es[run[1]].start, es[run[Len(run)]].end>>

(***************************************************************************)
(* find_spline_runs                                                        *)
(***************************************************************************)
\* degrees(atan2(|cross|, dot)) of two unit direction vectors; the direction
\* of a zero-length edge is (0, 0) and atan2(0, 0) is 0
angle_between_vectors(u, v) ==
    IF IsZeroVec(u) \/ IsZeroVec(v) THEN 0
    ELSE FoldAngle(Abs(Atan2Deg(u[2], u[1]) - Atan2Deg(v[2], v[1])))

RECURSIVE ChainExtend(_, _, _, _, _, _)
\* chain.insert(0, next_edge) if current_vertex == start_edge['start'],
\* chain.append(next_edge) otherwise
ChainTake(es, g, start_edge, current_vertex, global_used, st, next_vertex, k) ==
    ChainExtend(es, g, start_edge, next_vertex, global_used,
                [chain |-> IF current_vertex = es[start_edge].start
                           THEN <<k>> \o st.chain
                           ELSE Append(st.chain, k),
                 used |-> st.used \cup {k}])

ChainPick(es, g, start_edge, current_vertex, global_used, st, cands, i) ==
    IF i = 0 THEN st
    ELSE ChainTake(es, g, start_edge, current_vertex, global_used, st, cands[i],
                   EdgeLookup(es, current_vertex, cands[i]))

SplineQualifies(es, k, global_used, local_used) ==
    /\ k # 0
    /\ k \notin global_used
    /\ k \notin local_used
    /\ es[k].type = "line"

\* the while True loop of build_connected_chain
ChainExtend(es, g, start_edge, current_vertex, global_used, st) ==
    LET Qual(c) == /\ c # current_vertex
                   /\ SplineQualifies(es, EdgeLookup(es, current_vertex, c),
                                      global_used, st.used)
    IN  ChainPick(es, g, start_edge, current_vertex, global_used, st,
                  Adj(g, current_vertex), FirstIndex(Adj(g, current_vertex), Qual))

build_connected_chain(es, g, start_edge, global_used, local_used) ==
    ChainExtend(es, g, start_edge, es[start_edge].end, global_used,
        ChainExtend(es, g, start_edge, es[start_edge].start, global_used,
            [chain |-> <<start_edge>>, used |-> local_used \cup {start_edge}]))

\* break_points, as 0-based positions in the chain
analyze_angular_progression(es, chain) ==
    LET Sharp(i) == angle_between_vectors(EdgeVec(es[chain[i]]), EdgeVec(es[chain[i + 1]]))
                        > SplineAngleThreshold
    IN  SelectSeq(Positions(Len(chain) - 1), Sharp)

RECURSIVE SplitFrom(_, _, _, _)
SplitFrom(chain, break_points, start_idx, sub_chains) ==
    IF break_points = <<>>
    THEN IF Len(chain) - start_idx >= SplineMinRun
         THEN Append(sub_chains, SubSeq(chain, start_idx + 1, Len(chain)))
         ELSE sub_chains
    ELSE SplitFrom(chain, Tail(break_points), Head(break_points),
             IF Head(break_points) - start_idx >= SplineMinRun
             THEN Append(sub_chains, SubSeq(chain, start_idx + 1, Head(break_points)))
             ELSE sub_chains)

split_chain_at_breaks(chain, break_points) ==
    IF break_points = <<>> THEN <<chain>> ELSE SplitFrom(chain, break_points, 0, <<>>)

RECURSIVE SplineFrom(_, _, _, _, _, _)
SplineKeep(es, g, unused, global_used, spline_runs, st) ==
    IF Len(st.chain) >= SplineMinRun
    THEN SplineFrom(es, g, unused, global_used, st.used,
             spline_runs \o split_chain_at_breaks(st.chain,
                                analyze_angular_progression(es, st.chain)))
    ELSE SplineFrom(es, g, unused, global_used, st.used \ Range(st.chain), spline_runs)

SplineFrom(es, g, unused, global_used, local_used, spline_runs) ==
    IF unused = <<>> THEN spline_runs
    ELSE IF Head(unused) \in local_used \/ es[Head(unused)].type # "line"
    THEN SplineFrom(es, g, Tail(unused), global_used, local_used, spline_runs)
    ELSE SplineKeep(es, g, Tail(unused), global_used, spline_runs,
             build_connected_chain(es, g, Head(unused), global_used, local_used))

find_spline_runs(es, g, unused, global_used) ==
    SplineFrom(es, g, unused, global_used, {}, <<>>)

(***************************************************************************)
(* The sketch: geometry list and constraint list of the host document      *)
(***************************************************************************)
Geo(kind, construction, pts) ==
    [kind |-> kind, construction |-> construction, pts |-> pts]

Constraint(type, first, firstPos, second, secondPos) ==
    [type |-> type, first |-> first, firstPos |-> firstPos,
     second |-> second, secondPos |-> secondPos]

\* the host's answers to a step: every call succeeds, or the first addGeometry
\* of the step raises, or the first addConstraint of the step raises
HostFaults == {"none", "addGeometry", "addConstraint"}

(***************************************************************************)
(* process_equilateral_polygons / add_circumcircle_with_constraints        *)
(* A step state st carries the sketch (geo, cons), the claimed edges       *)
(* (used), the pending host fault and whether an exception was raised.     *)
(***************************************************************************)
add_circumcircle_with_constraints(st, center) ==
    IF ~HostLineOk(Origin, center) \/ st.fault # "none"
    THEN [st EXCEPT !.raised = TRUE, !.fault = "none"]
    ELSE [st EXCEPT
             !.geo = st.geo \o <<Geo("line", TRUE, <<Origin, center>>),
                                 Geo("circle", FALSE, <<center>>)>>,
             !.cons = st.cons \o <<Constraint("Block", Len(st.geo) + 1, 0, 0, 0),
                                   Constraint("Radius", Len(st.geo) + 2, 0, 0, 0)>>]

\* used.update(id(e) for e in poly['edges']), reached when no call raised
MarkUsed(st, idxs) == IF st.raised THEN st ELSE [st EXCEPT !.used = @ \cup Range(idxs)]

\* if center and radius: ...
CircleFor(st, poly, fit) ==
    IF ~fit.ok THEN st
    ELSE MarkUsed(add_circumcircle_with_constraints(st, fit.center), poly.edges)

RECURSIVE EquiFrom(_, _)
EquiFrom(equi_polys, st) ==
    IF equi_polys = <<>> \/ st.raised THEN st
    ELSE EquiFrom(Tail(equi_polys),
                  CircleFor(st, Head(equi_polys), best_fit_circle(Head(equi_polys).vertices)))

process_equilateral_polygons(es, polys, st) == EquiFrom(analyze_equilateral(es, polys), st)

(***************************************************************************)
(* draw_partial_arcs: every run is drawn inside its own try / except       *)
(***************************************************************************)
\* the Block and Radius constraints, after the centre line was added
ArcConstraints(st, idx_arc, idx_line) ==
    IF st.fault = "addConstraint"
    THEN [st EXCEPT !.raised = TRUE, !.fault = "none"]
    ELSE [st EXCEPT !.cons = @ \o <<Constraint("Block", idx_line, 0, 0, 0),
                                    Constraint("Radius", idx_arc, 0, 0, 0)>>]

\* the centre line, after the arc was added as geometry idx_arc
ArcCentreLine(st, idx_arc, center) ==
    IF ~HostLineOk(Origin, center) THEN [st EXCEPT !.raised = TRUE]
    ELSE ArcConstraints([st EXCEPT !.geo = Append(@, Geo("line", TRUE, <<Origin, center>>))],
                        idx_arc, idx_arc + 1)

\* the body of the try for one run, fit being its three points
DrawArcFitted(run, st, fit) ==
    IF ~fit.ok \/ ~HostArcOk(fit.p0, fit.pm, fit.p2)
    THEN [st EXCEPT !.raised = TRUE]
    ELSE IF st.fault = "addGeometry"
    THEN [st EXCEPT !.raised = TRUE, !.fault = "none"]
    ELSE ArcCentreLine([st EXCEPT
                           !.geo = Append(@, Geo("arc", FALSE, <<fit.p0, fit.pm, fit.p2>>)),
                           !.used = @ \cup Range(run)],
                       Len(st.geo) + 1,
                       FitCentre(<<fit.p0, fit.pm, fit.p2>>))

DrawArcRun(es, run, st) == DrawArcFitted(run, st, fit_arc_by_3_points_from_chain(es, run))

RECURSIVE DrawArcRuns(_, _, _)
DrawArcRuns(es, runs, st) ==
    IF runs = <<>> THEN st
    ELSE DrawArcRuns(es, Tail(runs), DrawArcRun(es, Head(runs), st))

RECURSIVE ArcsFrom(_, _, _, _)
ArcsFrom(es, polys, equi_polys, st) ==
    IF polys = <<>> THEN st
    ELSE ArcsFrom(es, Tail(polys), equi_polys,
             IF InSeq(Head(polys), equi_polys) THEN st
             ELSE DrawArcRuns(es, find_partial_regular_edge_runs(es, Head(polys)), st))

draw_partial_arcs(es, polys, equi_polys, st) == ArcsFrom(es, polys, equi_polys, st)

(***************************************************************************)
(* draw_colinear_lines: no try / except, an exception leaves the function  *)
(***************************************************************************)
DrawColinearLine(run, st, ends) ==
    IF ~HostLineOk(ends[1], ends[2]) \/ st.fault = "addGeometry"
    THEN [st EXCEPT !.raised = TRUE, !.fault = "none"]
    ELSE [st EXCEPT !.geo = Append(@, Geo("line", FALSE, ends)),
                    !.used = @ \cup Range(run)]

RECURSIVE ColinearLinesFrom(_, _, _)
ColinearLinesFrom(es, runs, st) ==
    IF runs = <<>> \/ st.raised THEN st
    ELSE ColinearLinesFrom(es, Tail(runs),
             DrawColinearLine(Head(runs), st, ColinearLineEnds(es, Head(runs))))

draw_colinear_lines(es, runs, st) == ColinearLinesFrom(es, runs, st)

(***************************************************************************)
(* draw_splines: every run is drawn inside its own try / except            *)
(***************************************************************************)
RunEndVertices(es, run) == [k \in 1..Len(run) |-> es[run[k]].end]

OrderedVertices(es, run, connections, endpoints) ==
    IF Len(endpoints) # 2
    THEN <<es[run[1]].start>> \o RunEndVertices(es, run)
    ELSE ChainPath(connections, endpoints[1].v, <<>>)

VerticesOfConn(es, run, connections) ==
    OrderedVertices(es, run, connections, ChainEnds(connections))

extract_ordered_vertices_from_spline_run(es, run) ==
    IF run = <<>> THEN <<>> ELSE VerticesOfConn(es, run, ConnFrom(es, run))

DrawSplineThrough(run, st, vertices) ==
    IF Len(vertices) < 2 THEN st
    ELSE IF st.fault = "addGeometry"
    THEN [st EXCEPT !.raised = TRUE, !.fault = "none"]
    ELSE [st EXCEPT !.geo = Append(@, Geo("bspline", FALSE, vertices)),
                    !.used = @ \cup Range(run)]

DrawSplineRun(es, run, st) ==
    DrawSplineThrough(run, st, extract_ordered_vertices_from_spline_run(es, run))

RECURSIVE SplinesFrom(_, _, _)
SplinesFrom(es, runs, st) ==
    IF runs = <<>> THEN st
    ELSE SplinesFrom(es, Tail(runs), DrawSplineRun(es, Head(runs), st))

draw_splines(es, runs, st) == SplinesFrom(es, runs, st)

(***************************************************************************)
(* toggle_remaining_construction_to_normal                                 *)
(***************************************************************************)
WithinToggleTol(p, q) ==
    /\ Abs(CoordX(p) - CoordX(q)) < ToggleTol
    /\ Abs(CoordY(p) - CoordY(q)) < ToggleTol

\* sketch geometry g is a line segment with the coordinates of edge e, in
\* either direction
GeoMatchesEdge(g, e) ==
    /\ g.kind = "line"
    /\ \/ WithinToggleTol(g.pts[1], e.start) /\ WithinToggleTol(g.pts[2], e.end)
       \/ WithinToggleTol(g.pts[1], e.end) /\ WithinToggleTol(g.pts[2], e.start)

\* sketch.toggleConstruction(i) for the first match that is construction
ToggleAt(geo, i) == IF i = 0 THEN geo ELSE [geo EXCEPT ![i].construction = FALSE]

RECURSIVE ToggleFrom(_, _, _)
ToggleFrom(es, unused, geo) ==
    IF unused = <<>> THEN geo
    ELSE LET Hit(g) == GeoMatchesEdge(g, es[Head(unused)]) /\ g.construction
         IN  ToggleFrom(es, Tail(unused), ToggleAt(geo, FirstIndex(geo, Hit)))

toggle_remaining_construction_to_normal(es, final_unused_edges, geo) ==
    ToggleFrom(es, final_unused_edges, geo)

(***************************************************************************)
(* add_coincident_constraints_to_endpoints                                 *)
(***************************************************************************)
Endpoint(geo_idx, pos, coordinate) ==
    [geo_idx |-> geo_idx, pos |-> pos, coordinate |-> coordinate]

\* start and end point of geometry i if it is a normal line, arc or B-spline
EndsOf(geo, i) ==
    IF ~geo[i].construction /\ geo[i].kind \in {"line", "arc", "bspline"}
    THEN <<Endpoint(i, 1, geo[i].pts[1]), Endpoint(i, 2, geo[i].pts[Len(geo[i].pts)])>>
    ELSE <<>>

RECURSIVE EndpointsFrom(_, _)
EndpointsFrom(geo, i) ==
    IF i > Len(geo) THEN <<>> ELSE EndsOf(geo, i) \o EndpointsFrom(geo, i + 1)

get_all_endpoints(geo) == EndpointsFrom(geo, 1)

\* math.sqrt(dx**2 + dy**2) <= TOLERANCE: points of two nodes are a grid unit
\* apart, points of one node differ by their offsets only
WithinCoincidentTol(p, q) ==
    /\ SameNode(p, q)
    /\ Abs(p[3] - q[3]) <= CoincidentTol

\* the endpoints after i, not yet processed, within the tolerance of endpoint i
GroupMembers(endpoints, i, processed) ==
    LET InGroup(j) == /\ j \notin processed \cup {i}
                      /\ WithinCoincidentTol(endpoints[i].coordinate,
                                             endpoints[j].coordinate)
    IN  SelectSeq(Positions(Len(endpoints)), InGroup)

\* only groups with several endpoints are kept
AddGroup(location_groups, endpoints, i, others) ==
    IF others = <<>> THEN location_groups
    ELSE Append(location_groups,
                <<endpoints[i]>> \o [k \in 1..Len(others) |-> endpoints[others[k]]])

RECURSIVE GroupEndpointsFrom(_, _, _, _)
GroupAround(endpoints, i, processed, location_groups, others) ==
    GroupEndpointsFrom(endpoints, i + 1, processed \cup {i} \cup Range(others),
                       AddGroup(location_groups, endpoints, i, others))

GroupEndpointsFrom(endpoints, i, processed, location_groups) ==
    IF i > Len(endpoints) THEN location_groups
    ELSE IF i \in processed
    THEN GroupEndpointsFrom(endpoints, i + 1, processed, location_groups)
    ELSE GroupAround(endpoints, i, processed, location_groups,
                     GroupMembers(endpoints, i, processed))

group_endpoints_by_location(endpoints) == GroupEndpointsFrom(endpoints, 1, {}, <<>>)

constraint_exists(cons, v1, v2) ==
    \E k \in 1..Len(cons) :
        /\ cons[k].type = "Coincident"
        /\ \/ /\ <<cons[k].first, cons[k].firstPos>> = v1
              /\ <<cons[k].second, cons[k].secondPos>> = v2
           \/ /\ <<cons[k].first, cons[k].firstPos>> = v2
              /\ <<cons[k].second, cons[k].secondPos>> = v1

\* the body of "for endpoint in group[1:]"; a failing addConstraint is caught
ConstrainTo(anchor, endpoint, st) ==
    IF endpoint.geo_idx = anchor.geo_idx THEN st
    ELSE IF constraint_exists(st.cons, <<endpoint.geo_idx, endpoint.pos>>,
                              <<anchor.geo_idx, anchor.pos>>) THEN st
    ELSE IF st.fault = "addConstraint"
    THEN [st EXCEPT !.raised = TRUE, !.fault = "none"]
    ELSE [st EXCEPT !.cons = Append(@, Constraint("Coincident", endpoint.geo_idx,
                                                  endpoint.pos, anchor.geo_idx, anchor.pos))]

RECURSIVE ConstrainGroup(_, _, _)
ConstrainGroup(anchor, rest, st) ==
    IF rest = <<>> THEN st
    ELSE ConstrainGroup(anchor, Tail(rest), ConstrainTo(anchor, Head(rest), st))

RECURSIVE ConstrainGroups(_, _)
ConstrainGroups(location_groups, st) ==
    IF location_groups = <<>> THEN st
    ELSE ConstrainGroups(Tail(location_groups),
             ConstrainGroup(Head(location_groups)[1], Tail(Head(location_groups)), st))

add_coincident_constraints_to_endpoints(st) ==
    ConstrainGroups(group_endpoints_by_location(get_all_endpoints(st.geo)), st)

(***************************************************************************)
(* Input sketches of a reconstruction run                                  *)
(***************************************************************************)
\* edge directions of a tessellated chain: four unit steps, a step of
\* length 2 and a step that turns 14.036 degrees away from it
StepSet == {<<1, 0>>, <<0, 1>>, <<-1, 0>>, <<0, -1>>, <<2, 0>>, <<4, 1>>}

\* endpoints closer than the merge tolerance: on node (0, 0) the offsets
\* 0, 6e-7 and 12e-7 mm
NearPoints == {<<0, 0, 0>>, <<0, 0, 6>>, <<0, 0, 12>>, <<1, 0, 0>>}

SeqsUpTo(S, n) == UNION {[1..k -> S] : k \in 1..n}

\* the vertex reached after the first k steps from the origin
ChainVertex(steps, k) ==
    <<SeqSum([i \in 1..k |-> steps[i][1]]), SeqSum([i \in 1..k |-> steps[i][2]]), 0>>

\* the chain of line segments that follows the steps from the origin; with
\* rev the last segment is stored end to start
ChainEdges(steps, rev) ==
    [k \in 1..Len(steps) |->
        IF rev /\ k = Len(steps)
        THEN Line(ChainVertex(steps, k), ChainVertex(steps, k - 1))
        ELSE Line(ChainVertex(steps, k - 1), ChainVertex(steps, k))]

NearEdges == {Line(p, q) : p, q \in NearPoints} \ {Line(p, p) : p \in NearPoints}

InputSketches ==
    {ChainEdges(steps, rev) : steps \in SeqsUpTo(StepSet, MaxChain), rev \in BOOLEAN}
        \cup SeqsUpTo(NearEdges, MaxNear)

\* the source edges are construction geometry of the sketch
SketchOf(lines) == [k \in 1..Len(lines) |-> Geo("line", TRUE, <<lines[k].start, lines[k].end>>)]

LinesOf(lines) == [k \in 1..Len(lines) |-> Line(lines[k].pts[1], lines[k].pts[2])]

extract_edge_data(geo) ==
    LET IsLine(g) == g.kind = "line"
    IN  LinesOf(SelectSeq(geo, IsLine))

(***************************************************************************)
(* Wire Doctor: WireTopologyAnalyzer (SketcherWireDoctor_Tab4)             *)
(*                                                                         *)
(* Geometry is addressed by its position in sketch.Geometry, counted from  *)
(* 1; 0 stands for None.  Coordinates of the model are multiples of        *)
(* 1e-7 mm, the resolution round_coord rounds to.                          *)
(***************************************************************************)
ReplaceTol == 10000

CountPathCap == 8

MinLoopVertices == 3

round_coord(p) == <<p[1], p[2], p[3]>>

\* (start_coord, end_coord), None for geometry without end points
get_geometry_endpoints(g) ==
    IF g.kind \in {"line", "arc", "bspline", "ellipse"}
    THEN <<round_coord(g.pts[1]), round_coord(g.pts[2])>>
    ELSE <<NoPoint, NoPoint>>

StartCoord(geo, i) == get_geometry_endpoints(geo[i])[1]

EndCoord(geo, i) == get_geometry_endpoints(geo[i])[2]

HasEnds(geo, i) == StartCoord(geo, i) # NoPoint /\ EndCoord(geo, i) # NoPoint

\* start_coord and end_coord and start_coord != end_coord
ProperEdge(geo, i) == HasEnds(geo, i) /\ StartCoord(geo, i) # EndCoord(geo, i)

\* self.normal_geometry / self.construction_geometry, as geometry indices
prepare_geometry(geo, construction) ==
    LET Wanted(i) == geo[i].construction = construction
    IN  SelectSeq(Positions(Len(geo)), Wanted)

\* sketch.getPoint(GeoId, PosId): 1 the start, 2 the end, 3 the centre
PointRefOk(geo, id, pos) ==
    /\ id \in 1..Len(geo)
    /\ pos \in 1..Len(geo[id].pts)

getPoint(geo, id, pos) == geo[id].pts[pos]

ConstraintOk(geo, c) ==
    PointRefOk(geo, c.first, c.firstPos) /\ PointRefOk(geo, c.second, c.secondPos)

FirstPoint(geo, c) == round_coord(getPoint(geo, c.first, c.firstPos))

SecondPoint(geo, c) == round_coord(getPoint(geo, c.second, c.secondPos))

\* constraint_map[v1].add(v2); constraint_map[v2].add(v1), as the set of the
\* pairs (key, member)
CoincidentPairs(geo, cons) ==
    UNION {{<<FirstPoint(geo, cons[k]), SecondPoint(geo, cons[k])>>,
            <<SecondPoint(geo, cons[k]), FirstPoint(geo, cons[k])>>} :
           k \in {j \in 1..Len(cons) :
                     cons[j].type = "Coincident" /\ ConstraintOk(geo, cons[j])}}

\* internal_alignment_map[v2].add(v1) for SecondPos in [1, 2]
AlignmentPairs(geo, cons) ==
    {<<SecondPoint(geo, cons[k]), FirstPoint(geo, cons[k])>> :
        k \in {j \in 1..Len(cons) :
                  /\ cons[j].type = "InternalAlignment"
                  /\ ConstraintOk(geo, cons[j])
                  /\ cons[j].secondPos \in {1, 2}}}

build_constraint_connectivity(geo, cons) ==
    [coincident |-> CoincidentPairs(geo, cons),
     internal_alignment |-> AlignmentPairs(geo, cons)]

\* map.get(coord, set())
MapGet(pairs, coord) == {p[2] : p \in {q \in pairs : q[1] = coord}}

\* a variant of resolve_vertex_connectivity without the connections through
\* the circles of the internal alignment
resolve_vertex_direct(coord, cd) == MapGet(cd.coincident, coord)

resolve_vertex_connectivity(coord, cd) ==
    MapGet(cd.coincident, coord)
        \cup UNION {MapGet(cd.coincident, centre) :
                       centre \in MapGet(cd.internal_alignment, coord)}

IsResolvedSpline(geo, i) == geo[i].kind = "bspline" /\ HasEnds(geo, i)

resolve_bspline_connectivity(geo, normal, cd) ==
    [i \in {j \in Range(normal) : IsResolvedSpline(geo, j)} |->
        [start_connections |-> resolve_vertex_connectivity(StartCoord(geo, i), cd),
         end_connections |-> resolve_vertex_connectivity(EndCoord(geo, i), cd)]]

\* the pairs (coord1, coord2) that _add_graph_edge is called with for
\* geometry i
AddedEdges(geo, i, resolved) ==
    IF ~ProperEdge(geo, i) THEN {}
    ELSE IF geo[i].kind = "bspline" /\ i \in DOMAIN resolved
    THEN {<<StartCoord(geo, i), EndCoord(geo, i)>>}
             \cup {<<StartCoord(geo, i), c>> : c \in resolved[i].start_connections}
             \cup {<<EndCoord(geo, i), c>> : c \in resolved[i].end_connections}
    ELSE {<<StartCoord(geo, i), EndCoord(geo, i)>>}

BothWays(pairs) == pairs \cup {<<p[2], p[1]>> : p \in pairs}

GraphPairs(geo, normal, resolved) ==
    UNION {BothWays(AddedEdges(geo, i, resolved)) : i \in Range(normal)}

\* edge_map[(coord1, coord2)] = geo_idx: the last geometry that adds the
\* pair, normal_geometry being in ascending order of index
LastAdding(geo, normal, resolved, pair) ==
    CHOOSE i \in Range(normal) :
        /\ pair \in BothWays(AddedEdges(geo, i, resolved))
        /\ \A j \in Range(normal) :
               pair \in BothWays(AddedEdges(geo, j, resolved)) => j <= i

build_complete_connectivity_graph(geo, normal, resolved) ==
    [graph |-> GraphPairs(geo, normal, resolved),
     edge_map |-> [pair \in GraphPairs(geo, normal, resolved) |->
                      LastAdding(geo, normal, resolved, pair)]]

\* graph.get(vertex, [])
Neighbours(graph, v) == {p[2] : p \in {q \in graph : q[1] = v}}

Degree(graph, v) == Cardinality(Neighbours(graph, v))

\* len([v for v in graph.get(a, []) if v != b])
OtherConnections(graph, a, b) == Cardinality(Neighbours(graph, a) \ {b})

validate_connectivity_resolution(geo, normal, resolved) ==
    LET Unresolved(i) == geo[i].kind = "bspline" /\ i \notin DOMAIN resolved
    IN  SelectSeq(normal, Unresolved)

(***************************************************************************)
(* _find_orphaned_geometry                                                 *)
(***************************************************************************)
find_orphaned_geometry(geo, normal, graph) ==
    LET Orphaned(i) ==
            /\ HasEnds(geo, i)
            /\ Degree(graph, StartCoord(geo, i)) = 0
            /\ Degree(graph, EndCoord(geo, i)) = 0
    IN  SelectSeq(normal, Orphaned)

(***************************************************************************)
(* _build_geometry_connection_graph and _find_all_loops                    *)
(***************************************************************************)
\* unique_constraint_coords: the coordinates of the Coincident and
\* InternalAlignment constraints
ConstraintPoints(geo, cons) ==
    UNION {{getPoint(geo, cons[k].first, cons[k].firstPos),
            getPoint(geo, cons[k].second, cons[k].secondPos)} :
           k \in {j \in 1..Len(cons) :
                     /\ cons[j].type \in {"Coincident", "InternalAlignment"}
                     /\ ConstraintOk(geo, cons[j])}}

\* distance <= tolerance, for two points of the model
WithinReplaceTol(p, q) == SameNode(p, q) /\ Abs(p[3] - q[3]) <= ReplaceTol

\* find_nearest_constraint_coord: a constraint coordinate within the
\* tolerance, the coordinate itself if there is none.  The code takes the
\* first one in the iteration order of a set; of several within the
\* tolerance (the sketches with a B-spline only) the one with the least
\* offset is taken here, and no property below depends on that choice.
find_nearest_constraint_coord(coords, p) ==
    IF \E c \in coords : WithinReplaceTol(p, c)
    THEN CHOOSE c \in coords :
             /\ WithinReplaceTol(p, c)
             /\ \A d \in coords : WithinReplaceTol(p, d) => c[3] <= d[3]
    ELSE p

ConstraintStart(geo, coords, i) == find_nearest_constraint_coord(coords, StartCoord(geo, i))

ConstraintEnd(geo, coords, i) == find_nearest_constraint_coord(coords, EndCoord(geo, i))

\* the geometry adds an edge to vertex_graph
ValidEdge(geo, coords, i) ==
    /\ ProperEdge(geo, i)
    /\ ConstraintStart(geo, coords, i) # ConstraintEnd(geo, coords, i)

\* edge_key = tuple(sorted([constraint_start, constraint_end]))
EdgeKey(a, b) == {a, b}

KeyOf(geo, coords, i) == EdgeKey(ConstraintStart(geo, coords, i), ConstraintEnd(geo, coords, i))

ValidEdges(geo, coords, normal) == {i \in Range(normal) : ValidEdge(geo, coords, i)}

\* edge_map[edge_key] = geo_idx: the last geometry with that key
LastWithKey(geo, coords, valid, key) ==
    CHOOSE i \in valid :
        /\ KeyOf(geo, coords, i) = key
        /\ \A j \in valid : KeyOf(geo, coords, j) = key => j <= i

ConnectionGraph(geo, coords, valid) ==
    [vertex_graph |-> UNION {BothWays({<<ConstraintStart(geo, coords, i),
                                         ConstraintEnd(geo, coords, i)>>}) : i \in valid},
     edge_map |-> [key \in {KeyOf(geo, coords, i) : i \in valid} |->
                      LastWithKey(geo, coords, valid, key)]]

build_geometry_connection_graph(geo, cons, normal) ==
    ConnectionGraph(geo, ConstraintPoints(geo, cons),
                    ValidEdges(geo, ConstraintPoints(geo, cons), normal))

\* edge_map.get(edge_key)
EdgeMapGet(edge_map, key) == IF key \in DOMAIN edge_map THEN edge_map[key] ELSE 0

\* dfs_find_loops: the loops (sets of geometry indices) recorded by the call
RECURSIVE dfs_find_loops(_, _, _, _, _, _)
RECURSIVE dfs_visit(_, _, _, _, _, _, _, _)
dfs_find_loops(gd, cap, start, current, path, used) ==
    IF Cardinality(path) >= cap THEN {}
    ELSE UNION {dfs_visit(gd, cap, start, current, path, used, next,
                          EdgeMapGet(gd.edge_map, EdgeKey(current, next))) :
                    next \in Neighbours(gd.vertex_graph, current)}

\* a variant of dfs_visit that walks on through the vertices of the path
dfs_visit_again(gd, cap, start, current, path, used, next, edge) ==
    IF edge = 0 \/ edge \in used THEN {}
    ELSE IF next = start /\ Cardinality(path) >= MinLoopVertices THEN {used \cup {edge}}
    ELSE dfs_find_loops(gd, cap, start, next, path \cup {next}, used \cup {edge})

\* one neighbour of the loop over neighbors
dfs_visit(gd, cap, start, current, path, used, next, edge) ==
    IF edge = 0 \/ edge \in used THEN {}
    ELSE IF next = start /\ Cardinality(path) >= MinLoopVertices THEN {used \cup {edge}}
    ELSE IF next \notin path
    THEN dfs_find_loops(gd, cap, start, next, path \cup {next}, used \cup {edge})
    ELSE {}

Vertices(graph) == {p[1] : p \in graph}

\* the unique loops, each as the set of its geometry indices (the canonical
\* signature); max_path_length = len(self.normal_geometry)
LoopsOf(gd, max_path_length) ==
    UNION {dfs_find_loops(gd, max_path_length, v, v, {v}, {}) :
              v \in Vertices(gd.vertex_graph)}

find_all_loops(geo, cons, normal) ==
    LoopsOf(build_geometry_connection_graph(geo, cons, normal), Len(normal))

(***************************************************************************)
(* _find_bridge_edges                                                      *)
(***************************************************************************)
BothEndsConnected(geo, graph, i) ==
    /\ OtherConnections(graph, StartCoord(geo, i), EndCoord(geo, i)) > 0
    /\ OtherConnections(graph, EndCoord(geo, i), StartCoord(geo, i)) > 0

BridgesGiven(geo, normal, graph, edges_in_loops) ==
    LET IsBridge(i) ==
            /\ ProperEdge(geo, i)
            /\ i \notin edges_in_loops
            /\ BothEndsConnected(geo, graph, i)
    IN  SelectSeq(normal, IsBridge)

find_bridge_edges(geo, cons, normal, graph) ==
    BridgesGiven(geo, normal, graph, UNION find_all_loops(geo, cons, normal))

(***************************************************************************)
(* _find_subdivision_edges_clean                                           *)
(***************************************************************************)
get_subdivision_candidates(geo, normal, graph) ==
    LET IsCandidate(i) ==
            /\ ProperEdge(geo, i)
            /\ Degree(graph, StartCoord(geo, i)) > 2
            /\ Degree(graph, EndCoord(geo, i)) > 2
    IN  SelectSeq(normal, IsCandidate)

\* edge_map.get(edge_key, edge_map.get(reverse_edge_key))
TempEdgeGet(edge_map, a, b) ==
    IF <<a, b>> \in DOMAIN edge_map THEN edge_map[<<a, b>>]
    ELSE IF <<b, a>> \in DOMAIN edge_map THEN edge_map[<<b, a>>]
    ELSE 0

\* dfs_cycle_count: the edge tuples added to visited_edges by the call; path
\* is the sequence of the vertices walked
RECURSIVE dfs_cycle_count(_, _, _, _, _)
RECURSIVE cycle_visit(_, _, _, _, _, _, _)
dfs_cycle_count(conn, start, current, path, path_edges) ==
    UNION {cycle_visit(conn, start, current, path, path_edges, next,
                       TempEdgeGet(conn.edge_map, current, next)) :
               next \in Neighbours(conn.graph, current)}

cycle_visit(conn, start, current, path, path_edges, next, edge) ==
    IF Len(path) > 1 /\ next = path[Len(path) - 1] THEN {}
    ELSE IF edge = 0 \/ edge \in path_edges THEN {}
    ELSE IF next = start /\ Cardinality(path_edges) >= 2 THEN {path_edges \cup {edge}}
    ELSE IF ~InSeq(next, path) /\ Len(path) < CountPathCap
    THEN dfs_cycle_count(conn, start, next, Append(path, next), path_edges \cup {edge})
    ELSE {}

count_loops_in_graph(conn) ==
    Cardinality(UNION {dfs_cycle_count(conn, v, v, <<v>>, {}) : v \in Vertices(conn.graph)})

\* temp_graph and temp_edge_map of _test_edge_removal
TempConnectivity(conn, geo, i) ==
    [graph |-> conn.graph \ {<<StartCoord(geo, i), EndCoord(geo, i)>>,
                             <<EndCoord(geo, i), StartCoord(geo, i)>>},
     edge_map |-> [pair \in {q \in DOMAIN conn.edge_map : conn.edge_map[q] # i} |->
                      conn.edge_map[pair]]]

test_edge_removal(conn, geo, i, original_loop_count) ==
    IF ~HasEnds(geo, i) THEN 0
    ELSE original_loop_count - count_loops_in_graph(TempConnectivity(conn, geo, i))

SubdivisionsGiven(conn, geo, normal, original_loop_count) ==
    LET Reduces(i) == test_edge_removal(conn, geo, i, original_loop_count) > 0
    IN  IF original_loop_count = 0 THEN <<>>
        ELSE SelectSeq(get_subdivision_candidates(geo, normal, conn.graph), Reduces)

find_subdivision_edges_clean(conn, geo, cons, normal) ==
    SubdivisionsGiven(conn, geo, normal, Cardinality(find_all_loops(geo, cons, normal)))

(***************************************************************************)
(* _find_overlapping_geometry: edge1.section(edge2) for two line segments  *)
(* with end points on lattice nodes                                        *)
(***************************************************************************)
Dot(a, b, p) == (p[1] - a[1]) * (b[1] - a[1]) + (p[2] - a[2]) * (b[2] - a[2])

\* two segments on one line: the part they share
ColinearSection(lo, hi) ==
    IF lo > hi THEN "none" ELSE IF lo = hi THEN "endpoint" ELSE "overlap"

\* two segments on different lines, d1..d4 the sides the end points lie on
TransversalSection(d1, d2, d3, d4) ==
    IF d1 * d2 > 0 \/ d3 * d4 > 0 THEN "none"
    ELSE IF d1 = 0 \/ d2 = 0 \/ d3 = 0 \/ d4 = 0 THEN "endpoint"
    ELSE "crossing"

\* none: no section vertex; endpoint: one vertex, at an end point; crossing:
\* one vertex inside both edges; overlap: the two vertices of a shared part.
\* An edge without length has no shape.
SectionOf(a, b, c, d) ==
    IF SameNode(a, b) \/ SameNode(c, d) THEN "none"
    ELSE IF Cross(a, b, c) = 0 /\ Cross(a, b, d) = 0
    THEN ColinearSection(Max2(0, Min2(Dot(a, b, c), Dot(a, b, d))),
                         Min2(Dot(a, b, b), Max2(Dot(a, b, c), Dot(a, b, d))))
    ELSE TransversalSection(Cross(c, d, a), Cross(c, d, b), Cross(a, b, c), Cross(a, b, d))

\* intersection_count >= 2, or a single intersection that is not at an end
\* point
IsProblematic(geo, i, j) ==
    /\ geo[i].kind = "line"
    /\ geo[j].kind = "line"
    /\ SectionOf(geo[i].pts[1], geo[i].pts[2], geo[j].pts[1], geo[j].pts[2])
           \in {"crossing", "overlap"}

\* the k-th pair (i, j) of positions of normal_geometry, row by row
PairFirst(n, k) == ((k - 1) \div n) + 1

PairSecond(n, k) == ((k - 1) % n) + 1

find_overlapping_geometry(geo, normal) ==
    LET Flagged(k) ==
            /\ PairFirst(Len(normal), k) < PairSecond(Len(normal), k)
            /\ IsProblematic(geo, normal[PairFirst(Len(normal), k)],
                             normal[PairSecond(Len(normal), k)])
    IN  SelectSeq(Positions(Len(normal) * Len(normal)), Flagged)

\* geo_idx1, geo_idx2 of every overlapping pair in turn
FlattenPairs(normal, ks) ==
    [m \in 1..(2 * Len(ks)) |->
        IF m % 2 = 1 THEN normal[PairFirst(Len(normal), ks[(m + 1) \div 2])]
        ELSE normal[PairSecond(Len(normal), ks[m \div 2])]]

\* if geo_idx not in flagged_geometry: the first mention of each geometry
FirstMentions(s) ==
    LET IsFirst(m) == \A j \in 1..(m - 1) : s[j] # s[m]
    IN  [k \in 1..Len(SelectSeq(Positions(Len(s)), IsFirst)) |->
            s[SelectSeq(Positions(Len(s)), IsFirst)[k]]]

(***************************************************************************)
(* _find_true_tjunctions_with_details                                      *)
(***************************************************************************)
VertexTotal(graph, cd, a, b) ==
    OtherConnections(graph, a, b) + Cardinality(MapGet(cd.coincident, a))

find_true_tjunctions(geo, normal, graph, cd) ==
    LET IsTJunction(i) ==
            /\ HasEnds(geo, i)
            /\ \/ VertexTotal(graph, cd, StartCoord(geo, i), EndCoord(geo, i)) = 0
               \/ VertexTotal(graph, cd, EndCoord(geo, i), StartCoord(geo, i)) = 0
    IN  SelectSeq(normal, IsTJunction)

\* _count_other_constraints: the constraints other than Coincident on the
\* point of the geometry
count_other_constraints(cons, geo_idx, position) ==
    Cardinality({k \in 1..Len(cons) :
        /\ \/ cons[k].first = geo_idx /\ cons[k].firstPos = position
           \/ cons[k].second = geo_idx /\ cons[k].secondPos = position
        /\ cons[k].type # "Coincident"})

\* the description chosen from the vertex totals and the other constraints
\* of the two ends
DescriptionFor(start_total, end_total, start_other, end_other) ==
    IF start_total = 0 /\ end_total = 0
    THEN IF start_other > 0 \/ end_other > 0
         THEN "Anchored but not connected" ELSE "No connections"
    ELSE IF start_total = 0
    THEN IF start_other > 0 THEN "Anchored but not connected" ELSE "Dangling edge"
    ELSE IF end_total = 0
    THEN IF end_other > 0 THEN "Anchored but not connected" ELSE "Dangling edge"
    ELSE "Incomplete connection"

tjunction_description(geo, cons, graph, cd, i) ==
    DescriptionFor(VertexTotal(graph, cd, StartCoord(geo, i), EndCoord(geo, i)),
                   VertexTotal(graph, cd, EndCoord(geo, i), StartCoord(geo, i)),
                   count_other_constraints(cons, i, 1),
                   count_other_constraints(cons, i, 2))

\* tjunction_data, for the issues that were added to the result
TJunctionData(geo, cons, graph, cd, issues) ==
    [k \in 1..Len(issues) |->
        <<issues[k].geo_idx, tjunction_description(geo, cons, graph, cd, issues[k].geo_idx)>>]

(***************************************************************************)
(* The phases: the issues a phase records when nothing raises              *)
(***************************************************************************)
TopologyIssue(geo_idx, issue_type) == [geo_idx |-> geo_idx, issue_type |-> issue_type]

IssuesFor(idxs, issue_type) == [k \in 1..Len(idxs) |-> TopologyIssue(idxs[k], issue_type)]

phase1_issues(geo, normal, resolved) ==
    IssuesFor(validate_connectivity_resolution(geo, normal, resolved), "ISOLATION")

phase2_issues(geo, normal, conn) ==
    IssuesFor(find_orphaned_geometry(geo, normal, conn.graph), "ISOLATION")

phase25_issues(geo, normal) ==
    IssuesFor(FirstMentions(FlattenPairs(normal, find_overlapping_geometry(geo, normal))),
              "GEOMETRIC_VALIDITY")

phase3_issues(geo, cons, normal, conn) ==
    IssuesFor(find_bridge_edges(geo, cons, normal, conn.graph), "BRIDGE")

phase4_issues(geo, cons, normal, conn) ==
    IssuesFor(find_subdivision_edges_clean(conn, geo, cons, normal), "SUBDIVISION")

phase5_issues(geo, normal, conn, cd) ==
    IssuesFor(find_true_tjunctions(geo, normal, conn.graph, cd), "T_JUNCTION")

\* an exception inside a phase: none (<<>>), or <<n>> when it is raised with
\* n issues recorded, or after the last issue of a phase that has fewer
NoFault == <<>>

Raises(fault) == Len(fault) = 1

\* a variant of PhaseIssues whose except clause starts from a fresh result
PhaseIssuesDropped(issues, fault) == IF Raises(fault) THEN <<>> ELSE issues

\* result.issues when the phase returns: the except clause keeps what
\* add_issue has appended
PhaseIssues(issues, fault) ==
    IF Raises(fault) THEN SubSeq(issues, 1, Min2(fault[1], Len(issues))) ELSE issues

PhaseResult(phase, issues, success) ==
    [phase |-> phase, issues |-> issues, success |-> success]

RECURSIVE AllIssues(_)
AllIssues(results) ==
    IF results = <<>> THEN <<>>
    ELSE results[1].issues \o AllIssues(Tail(results))

IssuesOfType(issues, t) ==
    LET HasType(issue) == issue.issue_type = t
    IN  SelectSeq(issues, HasType)

ByType(issues) ==
    [t \in {issues[k].issue_type : k \in 1..Len(issues)} |-> IssuesOfType(issues, t)]

\* issues_by_type[issue.issue_type].append(issue) over phase_results.values()
collect_all_issues(results) == ByType(AllIssues(results))

(***************************************************************************)
(* _get_subdivision_confidence.  A loop is the set of its geometry indices *)
(* and all_loops is the set of the loops: the order in which the code      *)
(* lists loops and groups (insertion order of dicts, iteration order of    *)
(* sets of coordinates) is left open and decides only between loops of     *)
(* equal perimeter.  The sketches analysed are made of line segments.      *)
(***************************************************************************)
\* the largest r below hi with (1000 * q + r)^2 <= (q * q + m) * 10^6
RECURSIVE FractionBisect(_, _, _, _)
FractionBisect(q, m, lo, hi) ==
    IF hi - lo <= 1 THEN lo
    ELSE IF ((lo + hi) \div 2) * (2000 * q + ((lo + hi) \div 2)) <= m * 1000000
         THEN FractionBisect(q, m, (lo + hi) \div 2, hi)
         ELSE FractionBisect(q, m, lo, (lo + hi) \div 2)

\* the length of (dx, dy) in 1e-3 mm, as Hypot, for segments of any length
\* in the sketches analysed
LongHypot(dx, dy) ==
    1000 * ISqrt(dx * dx + dy * dy)
        + FractionBisect(ISqrt(dx * dx + dy * dy),
                         dx * dx + dy * dy - ISqrt(dx * dx + dy * dy) * ISqrt(dx * dx + dy * dy),
                         0, 1000)

\* geometry.length() of a line segment, in 1e-3 mm
GeoLength(g) ==
    IF SameNode(g.pts[1], g.pts[Len(g.pts)])
    THEN Abs(g.pts[Len(g.pts)][3] - g.pts[1][3]) \div 10000
    ELSE LongHypot(g.pts[Len(g.pts)][1] - g.pts[1][1], g.pts[Len(g.pts)][2] - g.pts[1][2])

calculate_loop_perimeter(geo, loop) ==
    SeqSum([k \in 1..Len(geo) |-> IF k \in loop THEN GeoLength(geo[k]) ELSE 0])

find_loops_containing_edge(geo_idx, all_loops) == {loop \in all_loops : geo_idx \in loop}

\* loop_vertices / current_vertices of _find_loop_groups
LoopVertices(geo, loop) ==
    UNION {{StartCoord(geo, i), EndCoord(geo, i)} : i \in loop} \ {NoPoint}

\* dfs_loops: the loops joined to a loop of the group by a shared vertex
RECURSIVE LoopGroupOf(_, _, _)
LoopGroupOf(geo, all_loops, group) ==
    LET Touches(loop) == \E member \in group :
                             LoopVertices(geo, loop) \cap LoopVertices(geo, member) # {}
    IN  IF \A loop \in all_loops : Touches(loop) => loop \in group THEN group
        ELSE LoopGroupOf(geo, all_loops, group \cup {loop \in all_loops : Touches(loop)})

\* the loop over range(len(all_loops)): a loop not yet visited starts a group
RECURSIVE LoopGroupsFrom(_, _, _)
LoopGroupsAdd(geo, all_loops, unvisited, group) ==
    {group} \cup LoopGroupsFrom(geo, all_loops, unvisited \ group)

LoopGroupsFrom(geo, all_loops, unvisited) ==
    IF unvisited = {} THEN {}
    ELSE LoopGroupsAdd(geo, all_loops, unvisited,
                       LoopGroupOf(geo, all_loops, {CHOOSE loop \in unvisited : TRUE}))

find_loop_groups(geo, all_loops) == LoopGroupsFrom(geo, all_loops, all_loops)

MaxPerimeter(perimeters) == CHOOSE m \in perimeters : \A x \in perimeters : x <= m

LoopsOfPerimeter(geo, loops, perimeter) ==
    {loop \in loops : calculate_loop_perimeter(geo, loop) = perimeter}

\* the loops of the largest perimeter among loops
LargestLoops(geo, loops) ==
    IF loops = {} THEN {}
    ELSE LoopsOfPerimeter(geo, loops,
             MaxPerimeter({calculate_loop_perimeter(geo, loop) : loop \in loops}))

\* the loops the code may take as edge_largest_loop: the containing loops of
\* the edge's group with the largest perimeter, which must exceed 0
EdgeLargestLoops(geo, containing_loops, group_loops) ==
    {loop \in LargestLoops(geo, containing_loops \cap group_loops) :
        calculate_loop_perimeter(geo, loop) > 0}

\* the label returned for the edge when max(group_perimeters) returns the loop
\* largest_group_loop and the loop over containing_loops ends with
\* edge_largest_loop (<<>> for None)
ConfidenceGiven(containing_loops, largest_group_loop, edge_largest_loop) ==
    IF containing_loops = {} THEN "WEAK"
    ELSE IF edge_largest_loop = <<largest_group_loop>> THEN "WEAK"
    ELSE "STRONG"

\* the group of the edge: the group that holds one of its containing loops
EdgeGroup(geo, all_loops, containing_loops) ==
    LoopGroupOf(geo, all_loops, {CHOOSE loop \in containing_loops : TRUE})

EdgeLargestChoices(largest) == IF largest = {} THEN {<<>>} ELSE {<<loop>> : loop \in largest}

ConfidenceInGroup(geo, containing_loops, group_loops, main) ==
    {ConfidenceGiven(containing_loops, main[group_loops], edge_largest_loop) :
        edge_largest_loop \in
            EdgeLargestChoices(EdgeLargestLoops(geo, containing_loops, group_loops))}

ConfidenceOf(geo, containing_loops, all_loops, main) ==
    IF containing_loops = {} THEN {"WEAK"}
    ELSE ConfidenceInGroup(geo, containing_loops,
                           EdgeGroup(geo, all_loops, containing_loops), main)

\* the labels _get_subdivision_confidence can return for the edge, main[g]
\* being the largest loop max() returns for the group g
get_subdivision_confidence(geo, geo_idx, all_loops, main) ==
    ConfidenceOf(geo, find_loops_containing_edge(geo_idx, all_loops), all_loops, main)

\* for every group one of its loops of the largest perimeter
MainLoopsOf(geo, groups) ==
    {main \in [groups -> UNION groups] :
        \A group \in groups : main[group] \in LargestLoops(geo, group)}

MainLoopChoices(geo, all_loops) == MainLoopsOf(geo, find_loop_groups(geo, all_loops))

\* the sequences that take their k-th label from the k-th set
LabelsFrom(sets) ==
    {labels \in [1..Len(sets) -> {"WEAK", "STRONG"}] :
        \A k \in 1..Len(sets) : labels[k] \in sets[k]}

\* the descriptions of the issues of phase 4, one label for each issue
ConfidencesGiven(geo, issues, all_loops, main) ==
    LabelsFrom([k \in 1..Len(issues) |->
                   get_subdivision_confidence(geo, issues[k].geo_idx, all_loops, main)])

SubdivisionConfidences(geo, issues, all_loops) ==
    UNION {ConfidencesGiven(geo, issues, all_loops, main) :
              main \in MainLoopChoices(geo, all_loops)}

(***************************************************************************)
(* Sketches handed to the analyzer: a ring of n normal line segments       *)
(* through the lattice points (k, k * k), which lie in convex position,    *)
(* and one more group of segments next to it                               *)
(***************************************************************************)
MaxRing == 9

MaxFault == 1

RingSizes == {0, 3, 4, MaxRing}

Extras == {"none", "chord", "tail", "bridge", "stub", "isolated", "cross", "zero"}

RingVertex(k) == <<k, k * k, 0>>

Segment(p, q) == Geo("line", FALSE, <<p, q>>)

RingEdges(n) == [k \in 1..n |-> Segment(RingVertex(k - 1), RingVertex(k % n))]

ExtraEdges(n, extra) ==
    CASE extra = "none" -> <<>>
      [] extra = "chord" ->
            IF n >= 4 THEN <<Segment(RingVertex(0), RingVertex(2))>> ELSE <<>>
      [] extra = "tail" -> <<Segment(RingVertex(0), <<0, -1, 0>>)>>
      [] extra = "bridge" ->
            <<Segment(RingVertex(0), <<0, -1, 0>>), Segment(<<0, -1, 0>>, <<1, -2, 0>>),
              Segment(<<1, -2, 0>>, <<-1, -2, 0>>), Segment(<<-1, -2, 0>>, <<0, -1, 0>>)>>
      [] extra = "stub" ->
            <<Segment(RingVertex(0), <<0, -1, 0>>), Segment(<<0, -1, 0>>, <<1, -2, 0>>),
              Segment(<<0, -1, 0>>, <<-1, -2, 0>>)>>
      [] extra = "isolated" -> <<Segment(<<-3, 0, 0>>, <<-3, 1, 0>>)>>
      [] extra = "cross" -> <<Segment(<<1, 0, 0>>, <<0, 1, 0>>)>>
      [] extra = "zero" -> <<Segment(<<-3, 0, 0>>, <<-3, 0, 0>>)>>

\* the end of every ring segment is Coincident with the start of the next
RingConstraints(n) ==
    [k \in 1..n |-> Constraint("Coincident", k, 2, (k % n) + 1, 1)]

AnalyzerSketch(n, extra, constrained) ==
    [geo |-> RingEdges(n) \o ExtraEdges(n, extra),
     cons |-> IF constrained THEN RingConstraints(n) ELSE <<>>]

AnalyzerSketches ==
    {AnalyzerSketch(n, extra, constrained) :
        n \in RingSizes, extra \in Extras, constrained \in BOOLEAN}

AnFaults == {NoFault} \cup {<<n>> : n \in 0..MaxFault}

(***************************************************************************)
(* Wire Doctor fix actions (SketcherWireDoctor_Main, _Tab1, _Tab2, _Tab4)  *)
(***************************************************************************)
ZeroLengthTol == 10

DuplicateTol == 1000

\* StartPoint.distanceToPoint(EndPoint) < TOLERANCE
find_zero_length_lines(geo) ==
    LET IsZero(i) ==
            /\ geo[i].kind = "line"
            /\ SameNode(geo[i].pts[1], geo[i].pts[2])
            /\ Abs(geo[i].pts[1][3] - geo[i].pts[2][3]) < ZeroLengthTol
    IN  SelectSeq(Positions(Len(geo)), IsZero)

WithinDuplicateTol(p, q) == SameNode(p, q) /\ Abs(p[3] - q[3]) <= DuplicateTol

HasEndpoints(g) == g.kind \in {"line", "arc", "bspline"}

\* the forward and the reverse pattern of the end points
are_geometries_duplicate_with_tolerance(g1, g2) ==
    /\ g1.kind = g2.kind
    /\ HasEndpoints(g1)
    /\ \/ WithinDuplicateTol(g1.pts[1], g2.pts[1]) /\ WithinDuplicateTol(g1.pts[2], g2.pts[2])
       \/ WithinDuplicateTol(g1.pts[1], g2.pts[2]) /\ WithinDuplicateTol(g1.pts[2], g2.pts[1])

count_constraints(cons, idx) ==
    Cardinality({k \in 1..Len(cons) : cons[k].first = idx \/ cons[k].second = idx})

\* group.sort(key=lambda x: x['constraints']): the member in place k of the
\* stable ascending sort
SortedMember(cons, group, k) ==
    group[CHOOSE m \in 1..Len(group) :
              Cardinality({j \in 1..Len(group) :
                  \/ count_constraints(cons, group[j]) < count_constraints(cons, group[m])
                  \/ /\ count_constraints(cons, group[j]) = count_constraints(cons, group[m])
                     /\ j < m}) = k - 1]

SortByConstraints(cons, group) == [k \in 1..Len(group) |-> SortedMember(cons, group, k)]

\* geo_idx1 and the later geometry, not yet in a group, that duplicates it
GroupOf(geo, i, checked) ==
    LET Joins(j) == j = i \/ (j > i /\ j \notin checked
                                 /\ are_geometries_duplicate_with_tolerance(geo[i], geo[j]))
    IN  SelectSeq(Positions(Len(geo)), Joins)

RECURSIVE DuplicatesFrom(_, _, _, _)
DuplicatesFrom(geo, cons, i, checked) ==
    IF i > Len(geo) THEN <<>>
    ELSE IF i \in checked \/ Len(GroupOf(geo, i, checked)) < 2
    THEN DuplicatesFrom(geo, cons, i + 1, checked)
    ELSE <<SortByConstraints(cons, GroupOf(geo, i, checked))>>
             \o DuplicatesFrom(geo, cons, i + 1, checked \cup Range(GroupOf(geo, i, checked)))

find_duplicate_geometry(geo, cons) == DuplicatesFrom(geo, cons, 1, {})

\* the members of all groups: the geometry items of the duplicate list
DuplicateItems(groups) == UNION {Range(groups[k]) : k \in 1..Len(groups)}

\* for duplicate_item in group[1:]
RecommendedItems(groups) == UNION {Range(Tail(groups[k])) : k \in 1..Len(groups)}

\* sorted(indices, reverse=True)
SortedDescending(S) ==
    [k \in 1..Cardinality(S) |-> CHOOSE x \in S : Cardinality({y \in S : y > x}) = k - 1]

SortedAscending(S) ==
    [k \in 1..Cardinality(S) |-> CHOOSE x \in S : Cardinality({y \in S : y < x}) = k - 1]

\* a reference to geometry after the geometry at idx was removed
Renumbered(id, idx) == IF id > idx THEN id - 1 ELSE id

RenumberedConstraint(c, idx) ==
    [c EXCEPT !.first = Renumbered(c.first, idx), !.second = Renumbered(c.second, idx)]

KeptConstraints(cons, idx) ==
    LET Unrelated(c) == c.first # idx /\ c.second # idx
    IN  SelectSeq(cons, Unrelated)

RenumberAll(cons, idx) == [k \in 1..Len(cons) |-> RenumberedConstraint(cons[k], idx)]

\* sketch.delGeometry(idx): the geometry goes, with the constraints on it
delGeometry(sk, idx) ==
    [geo |-> [k \in 1..(Len(sk.geo) - 1) |-> IF k < idx THEN sk.geo[k] ELSE sk.geo[k + 1]],
     cons |-> RenumberAll(KeptConstraints(sk.cons, idx), idx)]

\* sketch.setConstruction(idx, True)
setConstruction(sk, idx) ==
    [geo |-> [sk.geo EXCEPT ![idx].construction = TRUE], cons |-> sk.cons]

(***************************************************************************)
(* Sketches handed to the fix actions                                      *)
(***************************************************************************)
MaxFixGeo == 3

FixLines ==
    {Geo("line", FALSE, <<<<0, 0, 0>>, <<1, 0, 0>>>>),
     Geo("line", FALSE, <<<<1, 0, 0>>, <<0, 0, 0>>>>),
     Geo("line", FALSE, <<<<0, 0, 0>>, <<0, 1, 0>>>>),
     Geo("line", FALSE, <<<<2, 2, 0>>, <<2, 2, 0>>>>)}

\* no constraint, or the start points of the first two lines made Coincident
FixConstraints(geo) ==
    IF Len(geo) >= 2 THEN {<<>>, <<Constraint("Coincident", 1, 1, 2, 1)>>} ELSE {<<>>}

FixSketches ==
    UNION {{[geo |-> geo, cons |-> cons] : cons \in FixConstraints(geo)} :
              geo \in SeqsUpTo(FixLines, MaxFixGeo)}

(***************************************************************************)
(* State                                                                   *)
(***************************************************************************)
VARIABLES
    geometry,        \* sketch.Geometry
    constraints,     \* sketch.Constraints
    txn,             \* the document transaction: none, open, committed, aborted
    snapshot,        \* the sketch when the transaction was opened
    rp_pc,           \* final_sketcher_main: the statement reached
    rawEdges,        \* extract_edge_data(sketch), before merging
    edges,           \* edges, after find_connected_vertices
    mapping,         \* the mapping returned by find_connected_vertices
    graph,           \* build_graph(edges)[0]
    polygons,        \* detect_polygons(graph, lookup)
    equi,            \* the equilateral polygons
    used_from_equi,
    used_from_arcs,
    colinear_runs,
    used_from_colinear,
    spline_runs,
    used_from_splines,
    rp_raised,       \* the steps of the run in which an exception was raised
    first_run,       \* <<what an earlier run on this sketch left>>, <<>> before it
    an_pc,           \* WireTopologyAnalyzer.analyze: the statement reached
    normal_geometry, \* self.normal_geometry, as geometry indices
    constraint_graph,
    bspline_resolution_map,
    connectivity_graph,
    phase_results,   \* self.phase_results, in the order the phases were stored
    phases_run,      \* the phase methods called so far
    an_faults,       \* for each phase called, the exception raised inside it
    an_result,       \* the value analyze() returned
    subdivision_confidence, \* WEAK or STRONG in the description of each issue of phase 4
    loop_runs,       \* the calls of _find_all_loops on this sketch: visiting order, signatures
    tjunction_data,  \* (geo_idx, description) of the issues phase 5 recorded
    fix_pc,          \* a Wire Doctor fix action: the statement reached
    fix_action,      \* the fix action that is running
    fix_indices,     \* the geometry indices it set out to change, in order
    fix_next,        \* the position in fix_indices of the next change
    fix_skipped,     \* the indices whose change raised and was passed over
    txn_calls,       \* commit and abort, as the fix action called them on its transaction
    widget,          \* the Wire Doctor widget: open or closed
    highlighter,     \* self.highlighter is set
    highlight_objects, \* self.highlighter.highlight_objects
    active_document, \* App.ActiveDocument
    doc_objects,     \* the highlight objects that are in a document
    objects_created, \* the number of highlight objects added so far
    analysis_data    \* self.analysis_data, with the sketch.Geometry it was made from

sketchVars == <<geometry, constraints, txn, snapshot>>

rpVars == <<rp_pc, rawEdges, edges, mapping, graph, polygons, equi, used_from_equi,
            used_from_arcs, colinear_runs, used_from_colinear, spline_runs,
            used_from_splines, rp_raised, first_run>>

anVars == <<an_pc, normal_geometry, constraint_graph, bspline_resolution_map,
            connectivity_graph, phase_results, phases_run, an_faults, an_result,
            subdivision_confidence, loop_runs, tjunction_data>>

fixVars == <<fix_pc, fix_action, fix_indices, fix_next, fix_skipped, txn_calls>>

hlVars == <<widget, highlighter, highlight_objects, active_document, doc_objects,
            objects_created, analysis_data>>

vars == <<sketchVars, rpVars, anVars, fixVars, hlVars>>

RpIdle ==
    /\ rp_pc = "idle"
    /\ rawEdges = <<>>
    /\ edges = <<>>
    /\ mapping = <<>>
    /\ graph = <<>>
    /\ polygons = <<>>
    /\ equi = <<>>
    /\ used_from_equi = {}
    /\ used_from_arcs = {}
    /\ colinear_runs = <<>>
    /\ used_from_colinear = {}
    /\ spline_runs = <<>>
    /\ used_from_splines = {}
    /\ rp_raised = {}
    /\ first_run = <<>>

AnIdle ==
    /\ an_pc = "idle"
    /\ normal_geometry = <<>>
    /\ constraint_graph = [coincident |-> {}, internal_alignment |-> {}]
    /\ bspline_resolution_map = <<>>
    /\ connectivity_graph = [graph |-> {}, edge_map |-> <<>>]
    /\ phase_results = <<>>
    /\ phases_run = <<>>
    /\ an_faults = <<>>
    /\ an_result = <<>>
    /\ subdivision_confidence = <<>>
    /\ loop_runs = <<>>
    /\ tjunction_data = <<>>

\* the widget as SketcherWireDoctorWidget.__init__ leaves it
HlIdle ==
    /\ widget = "open"
    /\ highlighter = FALSE
    /\ highlight_objects = <<>>
    /\ active_document = 1
    /\ doc_objects = {}
    /\ objects_created = 0
    /\ analysis_data = [geo |-> <<>>, zero_length |-> <<>>]

FixIdle ==
    /\ fix_pc = "idle"
    /\ fix_action = "none"
    /\ fix_indices = <<>>
    /\ fix_next = 1
    /\ fix_skipped = {}
    /\ txn_calls = <<>>

InitReProfile ==
    /\ \E lines \in InputSketches : geometry = SketchOf(lines)
    /\ constraints = <<>>
    /\ txn = "none"
    /\ snapshot = [geo |-> <<>>, cons |-> <<>>]
    /\ RpIdle
    /\ AnIdle
    /\ FixIdle
    /\ HlIdle

(***************************************************************************)
(* final_sketcher_main, statement by statement                             *)
(***************************************************************************)
StepState(fault) ==
    [geo |-> geometry, cons |-> constraints, used |-> {}, fault |-> fault, raised |-> FALSE]

\* except Exception: sketch.Document.abortTransaction()
AbortRun(step) ==
    /\ txn' = "aborted"
    /\ geometry' = snapshot.geo
    /\ constraints' = snapshot.cons
    /\ rp_raised' = rp_raised \cup {step}
    /\ rp_pc' = "done"

\* the step ended without an exception leaving it; an exception that was
\* caught inside the step is recorded
KeepRunning(st, step, next_pc) ==
    /\ txn' = txn
    /\ geometry' = st.geo
    /\ constraints' = st.cons
    /\ rp_raised' = IF st.raised THEN rp_raised \cup {step} ELSE rp_raised
    /\ rp_pc' = next_pc

\* a step without try / except: an exception reaches the handler of main
AbortOrKeep(st, step, next_pc) ==
    IF st.raised THEN AbortRun(step) ELSE KeepRunning(st, step, next_pc)

\* [e for e in edges if id(e) not in used_edge_ids]
UnusedEdges(used) ==
    LET Free(k) == k \notin used
    IN  SelectSeq(Positions(Len(edges)), Free)

RpOpenTransaction ==
    /\ rp_pc = "idle"
    /\ txn = "none"
    /\ txn' = "open"
    /\ snapshot' = [geo |-> geometry, cons |-> constraints]
    /\ rp_pc' = "preprocess"
    /\ UNCHANGED <<geometry, constraints, rawEdges, edges, mapping, graph, polygons, equi,
                   used_from_equi, used_from_arcs, colinear_runs, used_from_colinear,
                   spline_runs, used_from_splines, rp_raised>>
    /\ UNCHANGED <<first_run, anVars, fixVars, hlVars>>

RpPreprocess ==
    /\ rp_pc = "preprocess"
    /\ rawEdges' = extract_edge_data(geometry)
    /\ mapping' = find_connected_vertices(rawEdges')
    /\ edges' = MergeEdges(rawEdges', mapping')
    /\ graph' = build_graph(edges')
    /\ polygons' = detect_polygons(graph', edges')
    /\ rp_pc' = "equilateral"
    /\ UNCHANGED <<sketchVars, equi, used_from_equi, used_from_arcs, colinear_runs,
                   used_from_colinear, spline_runs, used_from_splines, rp_raised>>
    /\ UNCHANGED <<first_run, anVars, fixVars, hlVars>>

EquilateralDone(st) ==
    /\ used_from_equi' = st.used
    /\ AbortOrKeep(st, "equilateral", "arcs")

RpEquilateral ==
    /\ rp_pc = "equilateral"
    /\ equi' = analyze_equilateral(edges, polygons)
    /\ \E fault \in HostFaults :
        EquilateralDone(process_equilateral_polygons(edges, polygons, StepState(fault)))
    /\ UNCHANGED <<snapshot, rawEdges, edges, mapping, graph, polygons, used_from_arcs,
                   colinear_runs, used_from_colinear, spline_runs, used_from_splines>>
    /\ UNCHANGED <<first_run, anVars, fixVars, hlVars>>

PartialArcsDone(st) ==
    /\ used_from_arcs' = st.used
    /\ KeepRunning(st, "arcs", "colinear")

RpPartialArcs ==
    /\ rp_pc = "arcs"
    /\ \E fault \in HostFaults :
        PartialArcsDone(draw_partial_arcs(edges, polygons, equi, StepState(fault)))
    /\ UNCHANGED <<snapshot, rawEdges, edges, mapping, graph, polygons, equi,
                   used_from_equi, colinear_runs, used_from_colinear, spline_runs,
                   used_from_splines>>
    /\ UNCHANGED <<first_run, anVars, fixVars, hlVars>>

ColinearDrawn(st) ==
    /\ used_from_colinear' = st.used
    /\ AbortOrKeep(st, "colinear", "splines")

ColinearFound(runs, fault) ==
    /\ colinear_runs' = runs
    /\ ColinearDrawn(draw_colinear_lines(edges, runs, StepState(fault)))

RpColinear ==
    /\ rp_pc = "colinear"
    /\ \E fault \in HostFaults :
        ColinearFound(find_colinear_edge_runs(edges, graph,
                          UnusedEdges(used_from_equi \cup used_from_arcs)), fault)
    /\ UNCHANGED <<snapshot, rawEdges, edges, mapping, graph, polygons, equi,
                   used_from_equi, used_from_arcs, spline_runs, used_from_splines>>
    /\ UNCHANGED <<first_run, anVars, fixVars, hlVars>>

SplinesDrawn(st) ==
    /\ used_from_splines' = st.used
    /\ KeepRunning(st, "splines", "toggle")

SplinesFound(runs, fault) ==
    /\ spline_runs' = runs
    /\ SplinesDrawn(draw_splines(edges, runs, StepState(fault)))

RpSplines ==
    /\ rp_pc = "splines"
    /\ \E fault \in HostFaults :
        SplinesFound(find_spline_runs(edges, graph,
                         UnusedEdges(used_from_equi \cup used_from_arcs
                                         \cup used_from_colinear),
                         used_from_equi \cup used_from_arcs \cup used_from_colinear),
                     fault)
    /\ UNCHANGED <<snapshot, rawEdges, edges, mapping, graph, polygons, equi,
                   used_from_equi, used_from_arcs, colinear_runs, used_from_colinear>>
    /\ UNCHANGED <<first_run, anVars, fixVars, hlVars>>

RpToggle ==
    /\ rp_pc = "toggle"
    /\ geometry' = toggle_remaining_construction_to_normal(edges,
                       UnusedEdges(used_from_equi \cup used_from_arcs
                                       \cup used_from_colinear \cup used_from_splines),
                       geometry)
    /\ rp_pc' = "coincident"
    /\ UNCHANGED <<constraints, txn, snapshot, rawEdges, edges, mapping, graph, polygons,
                   equi, used_from_equi, used_from_arcs, colinear_runs, used_from_colinear,
                   spline_runs, used_from_splines, rp_raised>>
    /\ UNCHANGED <<first_run, anVars, fixVars, hlVars>>

RpCoincident ==
    /\ rp_pc = "coincident"
    /\ \E fault \in HostFaults :
        KeepRunning(add_coincident_constraints_to_endpoints(StepState(fault)),
                    "coincident", "commit")
    /\ UNCHANGED <<snapshot, rawEdges, edges, mapping, graph, polygons, equi,
                   used_from_equi, used_from_arcs, colinear_runs, used_from_colinear,
                   spline_runs, used_from_splines>>
    /\ UNCHANGED <<first_run, anVars, fixVars, hlVars>>

RpCommit ==
    /\ rp_pc = "commit"
    /\ txn' = "committed"
    /\ rp_pc' = "done"
    /\ UNCHANGED <<geometry, constraints, snapshot, rawEdges, edges, mapping, graph,
                   polygons, equi, used_from_equi, used_from_arcs, colinear_runs,
                   used_from_colinear, spline_runs, used_from_splines, rp_raised>>
    /\ UNCHANGED <<first_run, anVars, fixVars, hlVars>>

(***************************************************************************)
(* The macro is run again on the sketch a committed run left.  The source  *)
(* edges are chains of axis steps of length 2, whose circle centres are    *)
(* grid nodes.  A sketch is not run again when it holds an arc of circle   *)
(* (extract_edge_data is modelled for line segments) or a centre that is   *)
(* no grid node (the position of such a centre is not modelled).           *)
(***************************************************************************)
RerunSteps == {<<2, 0>>, <<0, 2>>, <<-2, 0>>, <<0, -2>>}

RerunSketches ==
    {ChainEdges(steps, rev) : steps \in SeqsUpTo(RerunSteps, MaxChain), rev \in BOOLEAN}

InitRerun ==
    /\ \E lines \in RerunSketches : geometry = SketchOf(lines)
    /\ constraints = <<>>
    /\ txn = "none"
    /\ snapshot = [geo |-> <<>>, cons |-> <<>>]
    /\ RpIdle
    /\ AnIdle
    /\ FixIdle
    /\ HlIdle

HasArc(geo) == \E i \in 1..Len(geo) : geo[i].kind = "arc"

HasOffGrid(geo) == \E i \in 1..Len(geo) : InSeq(OffGrid, geo[i].pts)

\* what the first run left: its sketch, the number of source edges and the
\* source edges its detectors claimed
FirstRun ==
    [geo |-> geometry,
     cons |-> constraints,
     sources |-> Len(snapshot.geo),
     used |-> used_from_equi \cup used_from_arcs \cup used_from_colinear
                  \cup used_from_splines]

RpRunAgain ==
    /\ rp_pc = "done"
    /\ txn = "committed"
    /\ first_run = <<>>
    /\ ~HasArc(geometry)
    /\ ~HasOffGrid(geometry)
    /\ first_run' = <<FirstRun>>
    /\ txn' = "none"
    /\ rp_pc' = "idle"
    /\ rawEdges' = <<>>
    /\ edges' = <<>>
    /\ mapping' = <<>>
    /\ graph' = <<>>
    /\ polygons' = <<>>
    /\ equi' = <<>>
    /\ used_from_equi' = {}
    /\ used_from_arcs' = {}
    /\ colinear_runs' = <<>>
    /\ used_from_colinear' = {}
    /\ spline_runs' = <<>>
    /\ used_from_splines' = {}
    /\ rp_raised' = {}
    /\ UNCHANGED <<geometry, constraints, snapshot>>
    /\ UNCHANGED <<anVars, fixVars, hlVars>>

NextReProfile ==
    \/ RpOpenTransaction
    \/ RpPreprocess
    \/ RpEquilateral
    \/ RpPartialArcs
    \/ RpColinear
    \/ RpSplines
    \/ RpToggle
    \/ RpCoincident
    \/ RpCommit

SpecReProfile == InitReProfile /\ [][NextReProfile]_vars

NextRerun ==
    \/ NextReProfile
    \/ RpRunAgain

SpecRerun == InitRerun /\ [][NextRerun]_vars

(***************************************************************************)
(* Sketches whose source edges are the segments of one straight chain,     *)
(* stored in any order                                                     *)
(***************************************************************************)
MaxStraight == 3

Perms(n) == {f \in [1..n -> 1..n] : \A i, j \in 1..n : f[i] = f[j] => i = j}

\* the chain of n steps d from the origin, its segments listed in the order f
StraightChain(d, n, f) == [k \in 1..n |-> ChainEdges([i \in 1..n |-> d], FALSE)[f[k]]]

StraightSketches ==
    UNION {{StraightChain(d, n, f) : d \in StepSet, f \in Perms(n)} : n \in 2..MaxStraight}

InitColinear ==
    /\ \E lines \in StraightSketches : geometry = SketchOf(lines)
    /\ constraints = <<>>
    /\ txn = "none"
    /\ snapshot = [geo |-> <<>>, cons |-> <<>>]
    /\ RpIdle
    /\ AnIdle
    /\ FixIdle
    /\ HlIdle

SpecColinear == InitColinear /\ [][NextReProfile]_vars

(***************************************************************************)
(* WireTopologyAnalyzer.analyze, statement by statement                    *)
(***************************************************************************)
InitAnalyze ==
    /\ \E sk \in AnalyzerSketches : geometry = sk.geo /\ constraints = sk.cons
    /\ txn = "none"
    /\ snapshot = [geo |-> <<>>, cons |-> <<>>]
    /\ RpIdle
    /\ AnIdle
    /\ FixIdle
    /\ HlIdle

\* self._prepare_geometry(); an exception leaves analyze through its outer
\* handler, which returns {}
AnPrepare ==
    /\ an_pc = "idle"
    /\ \E raises \in BOOLEAN :
        IF raises
        THEN /\ an_pc' = "raised"
             /\ UNCHANGED normal_geometry
        ELSE /\ an_pc' = "phase1"
             /\ normal_geometry' = prepare_geometry(geometry, FALSE)
    /\ UNCHANGED <<constraint_graph, bspline_resolution_map, connectivity_graph,
                   phase_results, phases_run, an_faults, an_result,
                   subdivision_confidence, loop_runs, tjunction_data>>
    /\ UNCHANGED <<sketchVars, rpVars, fixVars, hlVars>>

\* a variant of after_phase1 without the test of phase1_result.success
after_phase1_unchecked(result) == "phase2"

\* if not phase1_result.success: return self._collect_all_issues()
after_phase1(result) == IF result.success THEN "phase2" ELSE "collect"

\* self.phase_results[phase] = result
StoreResult(result, fault, next_pc) ==
    /\ phase_results' = Append(phase_results, result)
    /\ phases_run' = Append(phases_run, result.phase)
    /\ an_faults' = Append(an_faults, fault)
    /\ an_pc' = next_pc

\* self.phase_results[1] = phase1_result, and the test of its success
Phase1Stored(result, fault) == StoreResult(result, fault, after_phase1(result))

Phase1Built(cd, resolved, conn) ==
    /\ constraint_graph' = cd
    /\ bspline_resolution_map' = resolved
    /\ connectivity_graph' = conn
    /\ Phase1Stored(PhaseResult("1", phase1_issues(geometry, normal_geometry, resolved),
                                TRUE), NoFault)

Phase1Resolved(cd, resolved) ==
    Phase1Built(cd, resolved,
                build_complete_connectivity_graph(geometry, normal_geometry, resolved))

\* the exception is raised after self.constraint_graph was assigned
Phase1Failed(cd) ==
    /\ constraint_graph' = cd
    /\ UNCHANGED <<bspline_resolution_map, connectivity_graph>>
    /\ Phase1Stored(PhaseResult("1", <<>>, FALSE), <<0>>)

Phase1With(cd) ==
    \E raises \in BOOLEAN :
        IF raises THEN Phase1Failed(cd)
        ELSE Phase1Resolved(cd, resolve_bspline_connectivity(geometry, normal_geometry, cd))

AnPhase1 ==
    /\ an_pc = "phase1"
    /\ Phase1With(build_constraint_connectivity(geometry, constraints))
    /\ UNCHANGED <<normal_geometry, an_result, subdivision_confidence, loop_runs, tjunction_data>>
    /\ UNCHANGED <<sketchVars, rpVars, fixVars, hlVars>>

\* a phase of 2 .. 5: its try block records issues until an exception, its
\* except clause logs, and the result is stored whatever happened
PhaseWith(phase, issues, next_pc) ==
    /\ \E fault \in AnFaults :
        StoreResult(PhaseResult(phase, PhaseIssues(issues, fault), TRUE), fault, next_pc)
    /\ UNCHANGED <<normal_geometry, constraint_graph, bspline_resolution_map,
                   connectivity_graph, an_result>>
    /\ UNCHANGED <<sketchVars, rpVars, fixVars, hlVars>>

AnPhase2 ==
    /\ an_pc = "phase2"
    /\ PhaseWith("2", phase2_issues(geometry, normal_geometry, connectivity_graph), "phase25")
    /\ UNCHANGED <<subdivision_confidence, loop_runs, tjunction_data>>

AnPhase25 ==
    /\ an_pc = "phase25"
    /\ PhaseWith("2.5", phase25_issues(geometry, normal_geometry), "phase3")
    /\ UNCHANGED <<subdivision_confidence, loop_runs, tjunction_data>>

AnPhase3 ==
    /\ an_pc = "phase3"
    /\ PhaseWith("3", phase3_issues(geometry, constraints, normal_geometry,
                                    connectivity_graph), "phase4")
    /\ UNCHANGED <<subdivision_confidence, loop_runs, tjunction_data>>

AnPhase4 ==
    /\ an_pc = "phase4"
    /\ PhaseWith("4", phase4_issues(geometry, constraints, normal_geometry,
                                    connectivity_graph), "phase5")
    /\ subdivision_confidence'
           \in SubdivisionConfidences(geometry, phase_results'[Len(phase_results')].issues,
                                      find_all_loops(geometry, constraints, normal_geometry))
    /\ UNCHANGED <<loop_runs, tjunction_data>>

AnPhase5 ==
    /\ an_pc = "phase5"
    /\ PhaseWith("5", phase5_issues(geometry, normal_geometry, connectivity_graph,
                                    constraint_graph), "collect")
    /\ tjunction_data' = TJunctionData(geometry, constraints, connectivity_graph.graph,
                                       constraint_graph,
                                       phase_results'[Len(phase_results')].issues)
    /\ UNCHANGED <<subdivision_confidence, loop_runs>>

\* return self._collect_all_issues()
AnCollect ==
    /\ an_pc = "collect"
    /\ an_result' = collect_all_issues(phase_results)
    /\ an_pc' = "returned"
    /\ UNCHANGED <<normal_geometry, constraint_graph, bspline_resolution_map,
                   connectivity_graph, phase_results, phases_run, an_faults,
                   subdivision_confidence, loop_runs, tjunction_data>>
    /\ UNCHANGED <<sketchVars, rpVars, fixVars, hlVars>>

NextAnalyze ==
    \/ AnPrepare
    \/ AnPhase1
    \/ AnPhase2
    \/ AnPhase25
    \/ AnPhase3
    \/ AnPhase4
    \/ AnPhase5
    \/ AnCollect

SpecAnalyze == InitAnalyze /\ [][NextAnalyze]_vars

(***************************************************************************)
(* Sketches for the subdivision labels: a rectangle of normal segments     *)
(* with one chord (a diagonal, or a segment across it whose ends split the *)
(* two sides it meets), and a rectangle divided in four by two segments    *)
(* across it.  The chord or the spokes are the last geometries.            *)
(***************************************************************************)
MaxPane == 2

ClosedRing(vs) == [k \in 1..Len(vs) |-> Segment(vs[k], vs[(k % Len(vs)) + 1])]

DiagonalPane(w, h) ==
    ClosedRing(<<<<0, 0, 0>>, <<w, 0, 0>>, <<w, h, 0>>, <<0, h, 0>>>>)
        \o <<Segment(<<0, 0, 0>>, <<w, h, 0>>)>>

AcrossPane(w, h) ==
    ClosedRing(<<<<0, 0, 0>>, <<1, 0, 0>>, <<w + 1, 0, 0>>, <<w + 1, h, 0>>, <<1, h, 0>>,
                 <<0, h, 0>>>>)
        \o <<Segment(<<1, 0, 0>>, <<1, h, 0>>)>>

BisectedRectangles ==
    {DiagonalPane(w, h) : w, h \in 1..MaxPane} \cup {AcrossPane(w, h) : w, h \in 1..MaxPane}

FourPanes(w, h) ==
    ClosedRing(<<<<0, 0, 0>>, <<1, 0, 0>>, <<w + 1, 0, 0>>, <<w + 1, 1, 0>>, <<w + 1, h + 1, 0>>,
                 <<1, h + 1, 0>>, <<0, h + 1, 0>>, <<0, 1, 0>>>>)
        \o <<Segment(<<1, 0, 0>>, <<1, 1, 0>>), Segment(<<1, 1, 0>>, <<w + 1, 1, 0>>),
             Segment(<<1, 1, 0>>, <<1, h + 1, 0>>), Segment(<<0, 1, 0>>, <<1, 1, 0>>)>>

PaneSketches == BisectedRectangles \cup {FourPanes(w, h) : w, h \in 1..(MaxPane - 1)}

InitSubdivision ==
    /\ \E geo \in PaneSketches : geometry = geo
    /\ constraints = <<>>
    /\ txn = "none"
    /\ snapshot = [geo |-> <<>>, cons |-> <<>>]
    /\ RpIdle
    /\ AnIdle
    /\ FixIdle
    /\ HlIdle

SpecSubdivision == InitSubdivision /\ [][NextAnalyze]_vars

(***************************************************************************)
(* Sketches with a B-spline (geometry 1), the construction circle of one   *)
(* of its end points (geometry 2, point 3 its centre) and a normal line    *)
(* (geometry 3) whose start is Coincident with the centre.  The points the *)
(* constraints join are on one grid node; in a sketch that is not solved   *)
(* they differ by the offsets.                                             *)
(***************************************************************************)
MaxOffset == 2

SplineOffsets == {3 * k : k \in 0..MaxOffset}

CircleAt(c) == Geo("circle", TRUE, <<c, c, c>>)

SplineSketch(start, end, construction, pos, lineStart) ==
    [geo |-> <<Geo("bspline", construction, <<start, end>>),
               CircleAt(<<0, 0, 0>>),
               Segment(lineStart, <<-1, 0, 0>>)>>,
     cons |-> <<Constraint("InternalAlignment", 2, 3, 1, pos),
                Constraint("Coincident", 3, 1, 2, 3)>>]

\* the end of the spline that is aligned with the circle is at the node of
\* the centre; a closed spline has both ends there
SplineSketches ==
    {SplineSketch(IF pos = 1 \/ closed THEN <<0, 0, so>> ELSE <<2, 1, 0>>,
                  IF pos = 2 \/ closed THEN <<0, 0, so>> ELSE <<2, 1, 0>>,
                  construction, pos, <<0, 0, lo>>) :
        so \in SplineOffsets, lo \in SplineOffsets, pos \in {1, 2},
        closed \in BOOLEAN, construction \in BOOLEAN}

InitSpline ==
    /\ \E sk \in SplineSketches : geometry = sk.geo /\ constraints = sk.cons
    /\ txn = "none"
    /\ snapshot = [geo |-> <<>>, cons |-> <<>>]
    /\ RpIdle
    /\ AnIdle
    /\ FixIdle
    /\ HlIdle

SpecSpline == InitSpline /\ [][NextAnalyze]_vars

(***************************************************************************)
(* _find_all_loops with its visiting order and max_loops                   *)
(*                                                                         *)
(* find_all_loops above gives the loops as a set: it is what the code      *)
(* returns as long as fewer than max_loops loops are recorded before the   *)
(* duplicates are removed.  The operators here walk the graph in a given   *)
(* order and count the recorded loops, so that the cut at max_loops is     *)
(* part of the result.  The order of the start vertices is the order of    *)
(* the keys of vertex_graph and the order of the neighbours that of a      *)
(* list made from a set; one listing of the vertices stands for both.      *)
(***************************************************************************)
max_loops == 1000

\* the value of an expression, worked out once
Only(values) == CHOOSE v \in values : TRUE

NoLoops == [n |-> 0, sigs |-> {}]

\* all_loops.append(loop_edges), kept as the number of loops recorded and
\* the set of their signatures tuple(sorted(loop))
RecordLoop(acc, loop) == [n |-> acc.n + 1, sigs |-> acc.sigs \cup {loop}]

\* a variant of ReachedMaxLoops that never stops the enumeration
NeverReached(acc) == FALSE

\* len(all_loops) >= max_loops
ReachedMaxLoops(acc) == acc.n >= max_loops

\* vertex_graph.get(current_vertex, []), in the visiting order
NeighboursInOrder(gd, order, v) ==
    LET IsNeighbour(w) == <<v, w>> \in gd.vertex_graph
    IN  SelectSeq(order, IsNeighbour)

RECURSIVE dfs_in_order(_, _, _, _, _, _, _, _)
RECURSIVE visit_in_order(_, _, _, _, _, _, _, _, _)
RECURSIVE visit_neighbour(_, _, _, _, _, _, _, _, _, _)
\* dfs_find_loops(start_vertex, current_vertex, path_vertices, used_edges):
\* all_loops after the call, acc being all_loops before it
dfs_in_order(gd, cap, order, start, current, path, used, acc) ==
    IF ReachedMaxLoops(acc) \/ Cardinality(path) >= cap THEN acc
    ELSE Only({visit_in_order(gd, cap, order, start, current, path, used, nbrs, acc) :
                  nbrs \in {NeighboursInOrder(gd, order, current)}})

\* the loop over neighbors, left when max_loops is reached
visit_in_order(gd, cap, order, start, current, path, used, nbrs, acc) ==
    IF nbrs = <<>> \/ ReachedMaxLoops(acc) THEN acc
    ELSE Only({visit_in_order(gd, cap, order, start, current, path, used, Tail(nbrs), after) :
                  after \in {visit_neighbour(gd, cap, order, start, current, path, used,
                                             Head(nbrs),
                                             EdgeMapGet(gd.edge_map, EdgeKey(current, Head(nbrs))),
                                             acc)}})

\* one pass of the loop over neighbors
visit_neighbour(gd, cap, order, start, current, path, used, next, edge, acc) ==
    IF edge = 0 \/ edge \in used THEN acc
    ELSE IF next = start /\ Cardinality(path) >= MinLoopVertices
    THEN RecordLoop(acc, used \cup {edge})
    ELSE IF next \notin path
    THEN dfs_in_order(gd, cap, order, start, next, path \cup {next}, used \cup {edge}, acc)
    ELSE acc

\* for i, start_vertex in enumerate(vertices), left when max_loops is reached
RECURSIVE StartFromEach(_, _, _, _, _)
StartFromEach(gd, cap, order, starts, acc) ==
    IF starts = <<>> \/ ReachedMaxLoops(acc) THEN acc
    ELSE Only({StartFromEach(gd, cap, order, Tail(starts), after) :
                  after \in {dfs_in_order(gd, cap, order, Head(starts), Head(starts),
                                          {Head(starts)}, {}, acc)}})

\* all_loops when every start vertex has been tried
all_loops_in_order(gd, cap, order) == StartFromEach(gd, cap, order, order, NoLoops)

\* the signatures of unique_loops
find_all_loops_in_order(gd, cap, order) == all_loops_in_order(gd, cap, order).sigs

\* what a call leaves: the order it visited in, len(all_loops) and the
\* signatures of the loops it returned
LoopRun(order, acc) == [order |-> order, recorded |-> acc.n, signatures |-> acc.sigs]

(***************************************************************************)
(* Sketches of lines that join every two of n points                       *)
(***************************************************************************)
MaxComplete == 6

\* points on a parabola: no three of them are on one line
CompletePoints(n) == [k \in 1..n |-> <<k - 1, (k - 1) * (k - 1), 0>>]

\* the position of the line from point i to point j > i among the lines of n points
PairIndex(n, i, j) == (i - 1) * n - ((i * (i - 1)) \div 2) + (j - i)

PairAt(n, k) == CHOOSE p \in (1..n) \X (1..n) : p[1] < p[2] /\ PairIndex(n, p[1], p[2]) = k

CompleteSketch(n) ==
    [k \in 1..((n * (n - 1)) \div 2) |->
        Segment(CompletePoints(n)[PairAt(n, k)[1]], CompletePoints(n)[PairAt(n, k)[2]])]

Rotated(s, k) == [i \in 1..Len(s) |-> s[((i + k - 1) % Len(s)) + 1]]

Reversed(s) == [i \in 1..Len(s) |-> s[Len(s) + 1 - i]]

\* the listings of the vertices of the graph that are tried as visiting order
VisitOrders(n) ==
    {Rotated(CompletePoints(n), k) : k \in 0..(n - 1)}
        \cup {Reversed(Rotated(CompletePoints(n), k)) : k \in 0..(n - 1)}

MaxLoopRuns == 2

InitEnumerate ==
    /\ \E n \in 3..MaxComplete : geometry = CompleteSketch(n)
    /\ constraints = <<>>
    /\ txn = "none"
    /\ snapshot = [geo |-> <<>>, cons |-> <<>>]
    /\ RpIdle
    /\ AnIdle
    /\ FixIdle
    /\ HlIdle

\* self._find_all_loops(), called on the prepared sketch
FindAllLoops ==
    /\ an_pc = "phase1"
    /\ Len(loop_runs) < MaxLoopRuns
    /\ \E order \in VisitOrders(Cardinality(UNION {Range(geometry[i].pts) : i \in 1..Len(geometry)})) :
           \E graph_data \in {build_geometry_connection_graph(geometry, constraints,
                                                              normal_geometry)} :
               \E all_loops \in {all_loops_in_order(graph_data, Len(normal_geometry), order)} :
                   loop_runs' = Append(loop_runs, LoopRun(order, all_loops))
    /\ UNCHANGED <<an_pc, normal_geometry, constraint_graph, bspline_resolution_map,
                   connectivity_graph, phase_results, phases_run, an_faults, an_result,
                   subdivision_confidence, tjunction_data>>
    /\ UNCHANGED <<sketchVars, rpVars, fixVars, hlVars>>

NextEnumerate ==
    \/ AnPrepare
    \/ FindAllLoops

SpecEnumerate == InitEnumerate /\ [][NextEnumerate]_vars

\* the enumeration is called again and again on the prepared sketch
FairEnumerate == SpecEnumerate /\ WF_vars(FindAllLoops)

(***************************************************************************)
(* A fix action, statement by statement                                    *)
(***************************************************************************)
InitFix ==
    /\ \E sk \in FixSketches : geometry = sk.geo /\ constraints = sk.cons
    /\ txn = "none"
    /\ snapshot = [geo |-> <<>>, cons |-> <<>>]
    /\ RpIdle
    /\ AnIdle
    /\ FixIdle
    /\ HlIdle

\* sketch.Document.openTransaction(...) with the indices collected
FixBegin(action, indices) ==
    /\ indices # <<>>
    /\ txn' = "open"
    /\ snapshot' = [geo |-> geometry, cons |-> constraints]
    /\ fix_pc' = "mutating"
    /\ fix_action' = action
    /\ fix_indices' = indices
    /\ txn_calls' = <<>>
    /\ UNCHANGED <<geometry, constraints, fix_next, fix_skipped>>
    /\ UNCHANGED <<rpVars, anVars, hlVars>>

\* Tab1.delete_all_zero_length -> widget._delete_geometries(indices, ...)
FixDeleteZeroLength ==
    /\ fix_pc = "idle"
    /\ FixBegin("delete_all_zero_length",
                SortedDescending(Range(find_zero_length_lines(geometry))))

\* Tab2.delete_selected_duplicates: the geometry items selected in the list
FixDeleteSelectedDuplicates ==
    /\ fix_pc = "idle"
    /\ \E selected \in SUBSET DuplicateItems(find_duplicate_geometry(geometry, constraints)) :
        FixBegin("delete_selected_duplicates", SortedDescending(selected))

\* Tab2.delete_recommended_duplicates
FixDeleteRecommendedDuplicates ==
    /\ fix_pc = "idle"
    /\ FixBegin("delete_recommended_duplicates",
                SortedDescending(RecommendedItems(find_duplicate_geometry(geometry,
                                                                          constraints))))

\* Tab4.make_section_construction: the items of a section, all or selected
FixMakeConstruction ==
    /\ fix_pc = "idle"
    /\ \E section \in SUBSET (1..Len(geometry)) :
        FixBegin("make_section_construction", SortedAscending(section))

\* the loop body swallows an exception of the host call
SwallowsFailure(action) ==
    action \in {"delete_selected_duplicates", "delete_recommended_duplicates"}

ApplyChange(action, sk, idx) ==
    IF action = "make_section_construction" THEN setConstruction(sk, idx)
    ELSE delGeometry(sk, idx)

ChangeApplied(sk) ==
    /\ geometry' = sk.geo
    /\ constraints' = sk.cons
    /\ fix_next' = fix_next + 1
    /\ UNCHANGED <<txn, fix_pc, fix_skipped, txn_calls>>

\* except Exception as e: pass
ChangeSkipped ==
    /\ fix_skipped' = fix_skipped \cup {fix_indices[fix_next]}
    /\ fix_next' = fix_next + 1
    /\ UNCHANGED <<geometry, constraints, txn, fix_pc, txn_calls>>

\* except Exception: sketch.Document.abortTransaction()
FixAborted ==
    /\ txn' = "aborted"
    /\ geometry' = snapshot.geo
    /\ constraints' = snapshot.cons
    /\ fix_pc' = "done"
    /\ txn_calls' = Append(txn_calls, "abort")
    /\ UNCHANGED <<fix_next, fix_skipped>>

\* one pass of the loop over the indices: the host call succeeds or raises
FixChange ==
    /\ fix_pc = "mutating"
    /\ fix_next <= Len(fix_indices)
    /\ \E ok \in BOOLEAN :
        IF ok
        THEN ChangeApplied(ApplyChange(fix_action, [geo |-> geometry, cons |-> constraints],
                                       fix_indices[fix_next]))
        ELSE IF SwallowsFailure(fix_action) THEN ChangeSkipped
        ELSE FixAborted
    /\ UNCHANGED <<snapshot, fix_action, fix_indices>>
    /\ UNCHANGED <<rpVars, anVars, hlVars>>

\* sketch.Document.commitTransaction()
FixCommit ==
    /\ fix_pc = "mutating"
    /\ fix_next > Len(fix_indices)
    /\ txn' = "committed"
    /\ txn_calls' = Append(txn_calls, "commit")
    /\ fix_pc' = "reanalyze"
    /\ UNCHANGED <<geometry, constraints, snapshot, fix_action, fix_indices, fix_next,
                   fix_skipped>>
    /\ UNCHANGED <<rpVars, anVars, hlVars>>

\* the calls after widget.analyze_sketch(), which follows the commit inside
\* the try: when it raises, the handler calls abortTransaction()
AfterReanalysis(raised) == IF raised THEN Append(txn_calls, "abort") ELSE txn_calls

\* widget.analyze_sketch() after the commit; when it raises, the handler
\* calls abortTransaction() with no transaction open
FixReanalyze ==
    /\ fix_pc = "reanalyze"
    /\ fix_pc' = "done"
    /\ \E raised \in BOOLEAN : txn_calls' = AfterReanalysis(raised)
    /\ UNCHANGED <<sketchVars, fix_action, fix_indices, fix_next, fix_skipped>>
    /\ UNCHANGED <<rpVars, anVars, hlVars>>

NextFix ==
    \/ FixDeleteZeroLength
    \/ FixDeleteSelectedDuplicates
    \/ FixDeleteRecommendedDuplicates
    \/ FixMakeConstruction
    \/ FixChange
    \/ FixCommit
    \/ FixReanalyze

SpecFix == InitFix /\ [][NextFix]_vars

(***************************************************************************)
(* Wire Doctor: GeometryHighlighter and the events of the widget           *)
(* (SketcherWireDoctor_Main)                                               *)
(*                                                                         *)
(* A highlight object is known by the document it was added to and by its  *)
(* number among the objects added.  doc.addObject adds it to the active    *)
(* document; doc.Objects of the active document are the objects of         *)
(* doc_objects that were added to it.                                      *)
(***************************************************************************)
MaxDocuments == 2

MaxHighlights == 3

Documents == 1..MaxDocuments

\* the statements of a highlight in which an exception is raised
HighlightFaults == {"none", "shape", "appearance"}

\* doc.Objects after clear_highlights: every tracked object that is among
\* the objects of the active document is removed
clear_highlights(objects, tracked, doc) ==
    objects \ {obj \in Range(tracked) : obj[1] = doc}

\* doc.addObject("Part::Feature", ...)
NewObject(doc, created) == <<doc, created + 1>>

\* _create_highlight_object: the object is kept unless setting its shape
\* raised, in which case it is removed again and None is returned
create_highlight_object(objects, doc, created, fault) ==
    IF fault = "shape" THEN objects ELSE objects \cup {NewObject(doc, created)}

\* highlight_geometry(geo_idx) after its clear_highlights: the object is
\* appended to highlight_objects when _setup_highlight_appearance returned;
\* an exception is passed over
highlight_geometry(doc, created, fault) ==
    IF fault = "none" THEN <<NewObject(doc, created)>> ELSE <<>>

\* _highlight_zero_length_vertex(geo_idx) after its clear_highlights: any
\* exception after doc.addObject leaves the object in the document
highlight_zero_length_vertex(objects, doc, created, is_line) ==
    IF is_line THEN objects \cup {NewObject(doc, created)} ELSE objects

\* _perform_analysis: self.analysis_data.update(self.analyzer)
AnalysisOf(geo) == [geo |-> geo, zero_length |-> find_zero_length_lines(geo)]

InitHighlight ==
    /\ geometry = <<Segment(<<0, 0, 0>>, <<0, 0, 0>>), Segment(<<0, 0, 0>>, <<1, 0, 0>>),
                    Geo("circle", FALSE, <<<<0, 0, 0>>>>)>>
    /\ constraints = <<>>
    /\ txn = "none"
    /\ snapshot = [geo |-> <<>>, cons |-> <<>>]
    /\ RpIdle
    /\ AnIdle
    /\ FixIdle
    /\ HlIdle

\* analyze_sketch with a sketch in edit: _setup_analysis_tools clears the
\* highlights of the old highlighter and makes a new one, _perform_analysis
\* stores the results
WdAnalyzeSketch ==
    /\ widget = "open"
    /\ fix_pc \in {"idle", "done"}
    /\ analysis_data' = AnalysisOf(geometry)
    /\ highlighter' = TRUE
    /\ highlight_objects' = <<>>
    /\ doc_objects' = IF highlighter
                      THEN clear_highlights(doc_objects, highlight_objects, active_document)
                      ELSE doc_objects
    /\ UNCHANGED <<widget, active_document, objects_created>>
    /\ UNCHANGED <<sketchVars, rpVars, anVars, fixVars>>

\* _on_hover on an item of a list other than the zero-length list
WdHover ==
    /\ widget = "open"
    /\ highlighter
    /\ objects_created < MaxHighlights
    /\ \E geo_idx \in 1..Len(geometry), fault \in HighlightFaults :
        /\ doc_objects' = create_highlight_object(
                              clear_highlights(doc_objects, highlight_objects, active_document),
                              active_document, objects_created, fault)
        /\ highlight_objects' = highlight_geometry(active_document, objects_created, fault)
    /\ objects_created' = objects_created + 1
    /\ UNCHANGED <<widget, highlighter, active_document, analysis_data>>
    /\ UNCHANGED <<sketchVars, rpVars, anVars, fixVars>>

\* _on_hover on an item of the zero-length list
WdHoverZeroLength ==
    /\ widget = "open"
    /\ highlighter
    /\ objects_created < MaxHighlights
    /\ \E geo_idx \in 1..Len(geometry), fault \in HighlightFaults :
        /\ doc_objects' = highlight_zero_length_vertex(
                              clear_highlights(doc_objects, highlight_objects, active_document),
                              active_document, objects_created,
                              geometry[geo_idx].kind = "line")
        /\ highlight_objects' = IF geometry[geo_idx].kind = "line" /\ fault = "none"
                                THEN <<NewObject(active_document, objects_created)>>
                                ELSE <<>>
    /\ objects_created' = objects_created + 1
    /\ UNCHANGED <<widget, highlighter, active_document, analysis_data>>
    /\ UNCHANGED <<sketchVars, rpVars, anVars, fixVars>>

\* _on_hover_exit, and eventFilter on a Leave event of a list
WdHoverExit ==
    /\ widget = "open"
    /\ highlighter
    /\ highlight_objects # <<>>
    /\ doc_objects' = clear_highlights(doc_objects, highlight_objects, active_document)
    /\ highlight_objects' = <<>>
    /\ UNCHANGED <<widget, highlighter, active_document, objects_created, analysis_data>>
    /\ UNCHANGED <<sketchVars, rpVars, anVars, fixVars>>

\* the user makes another document the active one
WdSwitchDocument ==
    /\ \E doc \in Documents \ {active_document} : active_document' = doc
    /\ UNCHANGED <<widget, highlighter, highlight_objects, doc_objects, objects_created,
                   analysis_data>>
    /\ UNCHANGED <<sketchVars, rpVars, anVars, fixVars>>

\* closeEvent
WdClose ==
    /\ widget = "open"
    /\ widget' = "closed"
    /\ doc_objects' = IF highlighter
                      THEN clear_highlights(doc_objects, highlight_objects, active_document)
                      ELSE doc_objects
    /\ highlight_objects' = <<>>
    /\ UNCHANGED <<highlighter, active_document, objects_created, analysis_data>>
    /\ UNCHANGED <<sketchVars, rpVars, anVars, fixVars>>

NextHighlight ==
    \/ WdAnalyzeSketch
    \/ WdHover
    \/ WdHoverZeroLength
    \/ WdHoverExit
    \/ WdSwitchDocument
    \/ WdClose

SpecHighlight == InitHighlight /\ [][NextHighlight]_vars

(***************************************************************************)
(* A session of the widget on a sketch that stays open in the Sketcher:    *)
(* the widget analyses the sketch when it is made, on its Analyze button   *)
(* and after a fix action; the user goes on editing the sketch.            *)
(***************************************************************************)
InitSession ==
    /\ \E sk \in FixSketches : geometry = sk.geo /\ constraints = sk.cons
    /\ txn = "none"
    /\ snapshot = [geo |-> <<>>, cons |-> <<>>]
    /\ RpIdle
    /\ AnIdle
    /\ FixIdle
    /\ widget = "open"
    /\ highlighter = TRUE
    /\ highlight_objects = <<>>
    /\ active_document = 1
    /\ doc_objects = {}
    /\ objects_created = 0
    /\ analysis_data = AnalysisOf(geometry)

\* the user deletes a geometry in the Sketcher, or draws one more line
SketcherEdit ==
    /\ fix_pc = "idle"
    /\ \/ \E idx \in 1..Len(geometry) :
            /\ geometry' = delGeometry([geo |-> geometry, cons |-> constraints], idx).geo
            /\ constraints' = delGeometry([geo |-> geometry, cons |-> constraints], idx).cons
       \/ /\ Len(geometry) < MaxFixGeo
          /\ \E line \in FixLines : geometry' = Append(geometry, line)
          /\ UNCHANGED constraints
    /\ UNCHANGED <<txn, snapshot>>
    /\ UNCHANGED <<rpVars, anVars, fixVars, hlVars>>

\* Tab1.delete_all_zero_length: the indices of widget.analysis_data.zero_length
\* go to widget._delete_geometries
WdDeleteAllZeroLength ==
    /\ fix_pc = "idle"
    /\ widget = "open"
    /\ FixBegin("delete_all_zero_length", SortedDescending(Range(analysis_data.zero_length)))

\* one pass of the loop of _delete_geometries; sketch.delGeometry raises
\* for an index that the sketch does not have
WdDeleteGeometry ==
    /\ fix_pc = "mutating"
    /\ fix_next <= Len(fix_indices)
    /\ IF fix_indices[fix_next] \in 1..Len(geometry)
       THEN FixChange
       ELSE /\ FixAborted
            /\ UNCHANGED <<snapshot, fix_action, fix_indices>>
            /\ UNCHANGED <<rpVars, anVars, hlVars>>

\* sketch.Document.commitTransaction()
WdCommit ==
    /\ widget = "open"
    /\ FixCommit

\* self.analyze_sketch() after the commit
WdReanalyze ==
    /\ fix_pc = "reanalyze"
    /\ fix_pc' = "done"
    /\ \/ /\ analysis_data' = AnalysisOf(geometry)
          /\ highlight_objects' = <<>>
          /\ doc_objects' = clear_highlights(doc_objects, highlight_objects, active_document)
          /\ txn_calls' = AfterReanalysis(FALSE)
       \/ /\ UNCHANGED <<analysis_data, highlight_objects, doc_objects>>
          /\ txn_calls' = AfterReanalysis(TRUE)
    /\ UNCHANGED <<widget, highlighter, active_document, objects_created>>
    /\ UNCHANGED <<sketchVars, fix_action, fix_indices, fix_next, fix_skipped>>
    /\ UNCHANGED <<rpVars, anVars>>

NextSession ==
    \/ WdAnalyzeSketch
    \/ SketcherEdit
    \/ WdDeleteAllZeroLength
    \/ WdDeleteGeometry
    \/ WdCommit
    \/ WdReanalyze

SpecSession == InitSession /\ [][NextSession]_vars

(***************************************************************************)
(* Reconstruction of a smooth chain, whichever source edge is listed first *)
(***************************************************************************)
MaxSmooth == 5

\* two directions 14.036 degrees apart
SmoothSteps == {<<4, 1>>, <<1, 0>>}

\* the chain that follows the steps from the origin, its segments listed
\* from segment k + 1 on and around
SmoothSketches ==
    UNION {{Rotated(ChainEdges(steps, FALSE), k) :
                steps \in [1..n -> SmoothSteps], k \in 0..(n - 1)} :
           n \in SplineMinRun..MaxSmooth}

InitSmooth ==
    /\ \E lines \in SmoothSketches : geometry = SketchOf(lines)
    /\ constraints = <<>>
    /\ txn = "none"
    /\ snapshot = [geo |-> <<>>, cons |-> <<>>]
    /\ RpIdle
    /\ AnIdle
    /\ FixIdle
    /\ HlIdle

SpecSmooth == InitSmooth /\ [][NextReProfile]_vars

(***************************************************************************)
(* Sketches with a dangling edge: a triangle of normal line segments, one  *)
(* more group of geometry whose first member is geometry 4, and            *)
(* constraints on the two ends of geometry 4                               *)
(***************************************************************************)
TJunctionExtras == {"tail", "isolated", "zero", "closed"}

\* a chord and the arc over it: a closed profile of two edges
ClosedPair ==
    <<Segment(<<-3, 0, 0>>, <<-3, 2, 0>>), Geo("arc", FALSE, <<<<-3, 0, 0>>, <<-3, 2, 0>>>>)>>

TJunctionEdges(extra) ==
    IF extra = "closed" THEN ClosedPair ELSE ExtraEdges(3, extra)

EndpointConstraints ==
    <<Constraint("PointOnObject", 4, 1, 1, 0),
      Constraint("PointOnObject", 4, 2, 2, 0),
      Constraint("Distance", 1, 1, 4, 2),
      Constraint("Coincident", 4, 2, 2, 1)>>

ConstraintsPicked(picked) ==
    LET IsPicked(k) == k \in picked
        Idxs == SelectSeq(Positions(Len(EndpointConstraints)), IsPicked)
    IN  [k \in 1..Len(Idxs) |-> EndpointConstraints[Idxs[k]]]

TJunctionSketches ==
    {[geo |-> RingEdges(3) \o TJunctionEdges(extra),
      cons |-> ConstraintsPicked(picked)] :
        extra \in TJunctionExtras, picked \in SUBSET (1..Len(EndpointConstraints))}

InitTJunction ==
    /\ \E sk \in TJunctionSketches : geometry = sk.geo /\ constraints = sk.cons
    /\ txn = "none"
    /\ snapshot = [geo |-> <<>>, cons |-> <<>>]
    /\ RpIdle
    /\ AnIdle
    /\ FixIdle
    /\ HlIdle

SpecTJunction == InitTJunction /\ [][NextAnalyze]_vars

(***************************************************************************)
(* Reconstruction of closed equilateral loops, with a host that accepts    *)
(* every call of the circle step that it can carry out                     *)
(***************************************************************************)
\* the vertices of the loops relative to their centre: a square of side
\* sqrt(2), a unit square (its centre is on no grid node) and an octagon of
\* side sqrt(5)
Diamond == <<<<1, 0>>, <<0, 1>>, <<-1, 0>>, <<0, -1>>>>

UnitSquare == <<<<0, 0>>, <<1, 0>>, <<1, 1>>, <<0, 1>>>>

Octagon ==
    <<<<0, -3>>, <<2, -2>>, <<3, 0>>, <<2, 2>>, <<0, 3>>, <<-2, 2>>, <<-3, 0>>, <<-2, -2>>>>

LoopShapes == {Diamond, UnitSquare, Octagon}

LoopCentres == {<<0, 0>>, <<2, 0>>, <<0, -3>>}

LoopAt(shape, c) == [k \in 1..Len(shape) |-> <<shape[k][1] + c[1], shape[k][2] + c[2], 0>>]

LoopLines(verts) == [k \in 1..Len(verts) |-> Line(verts[k], verts[(k % Len(verts)) + 1])]

\* one loop, its segments listed from segment k + 1 on and around
LoopSketches ==
    UNION {{Rotated(LoopLines(LoopAt(shape, c)), k) : k \in 0..(Len(shape) - 1)} :
           shape \in LoopShapes, c \in LoopCentres}

InitCircles ==
    /\ \E lines \in LoopSketches : geometry = SketchOf(lines)
    /\ constraints = <<>>
    /\ txn = "none"
    /\ snapshot = [geo |-> <<>>, cons |-> <<>>]
    /\ RpIdle
    /\ AnIdle
    /\ FixIdle
    /\ HlIdle

\* process_equilateral_polygons, no call failing for a reason of the host's
RpEquilateralAccepted ==
    /\ rp_pc = "equilateral"
    /\ equi' = analyze_equilateral(edges, polygons)
    /\ EquilateralDone(process_equilateral_polygons(edges, polygons, StepState("none")))
    /\ UNCHANGED <<snapshot, rawEdges, edges, mapping, graph, polygons, used_from_arcs,
                   colinear_runs, used_from_colinear, spline_runs, used_from_splines>>
    /\ UNCHANGED <<first_run, anVars, fixVars, hlVars>>

NextCircles ==
    \/ RpOpenTransaction
    \/ RpPreprocess
    \/ RpEquilateralAccepted
    \/ RpPartialArcs
    \/ RpColinear
    \/ RpSplines
    \/ RpToggle
    \/ RpCoincident
    \/ RpCommit

SpecCircles == InitCircles /\ [][NextCircles]_vars

(***************************************************************************)
(* Properties of a reconstruction run                                      *)
(***************************************************************************)
ClaimedEarlier(run, used) == Range(run) \cap used # {}

\* C1: in one run every source edge is claimed by at most one of the four
\* detectors (equilateral, partial arc, colinear, spline, in this order): no
\* colinear run and no spline run holds an edge that an earlier detector
\* claimed, as seed or as extension.
C1_EdgeClaimedOnce ==
    /\ used_from_equi \cap used_from_arcs = {}
    /\ \A k \in 1..Len(colinear_runs) :
           ~ClaimedEarlier(colinear_runs[k], used_from_equi \cup used_from_arcs)
    /\ \A k \in 1..Len(spline_runs) :
           ~ClaimedEarlier(spline_runs[k],
                           used_from_equi \cup used_from_arcs \cup used_from_colinear)

\* every consecutive vertex pair of the walk, last-to-first included, is
\* joined by an edge of the graph
ClosedLoop(es, poly) ==
    /\ Len(poly) >= MinPolyVertices
    /\ \A i \in 1..Len(poly) : EdgeLookup(es, poly[i], poly[(i % Len(poly)) + 1]) # 0

\* C2: every polygon returned by detect_polygons is a closed loop of at
\* least 3 vertices; an open chain or a walk cut off by the 100-step cap is
\* never returned.
C2_PolygonsClosed ==
    \A k \in 1..Len(polygons) : ClosedLoop(edges, polygons[k].vertices)

\* the Euclidean distance of two endpoints is at most tol: endpoints of two
\* nodes are a grid unit apart
DistWithin(p, q, tol) == SameNode(p, q) /\ Abs(p[3] - q[3]) <= tol

\* C3: after find_connected_vertices any three raw endpoints A, B, C with
\* dist(A, B) <= tol and dist(B, C) <= tol are mapped to one merged vertex,
\* in whatever order the edges list them.
C3_MergeTransitive ==
    \A A, B, C \in DOMAIN mapping :
        DistWithin(A, B, MergeTol) /\ DistWithin(B, C, MergeTol)
            => mapping[A] = mapping[B] /\ mapping[B] = mapping[C]

\* C9: a run in which a detection or geometry-emitting step raised an
\* exception (anything but a single Coincident constraint add) is aborted and
\* leaves the sketch as it was; a run commits only when no such step failed.
C9_AbortOnException ==
    /\ txn = "committed" => rp_raised \subseteq {"coincident"}
    /\ txn = "aborted" => geometry = snapshot.geo /\ constraints = snapshot.cons

\* the second run on the sketch has committed
SecondRunDone == first_run # <<>> /\ rp_pc = "done" /\ txn = "committed"

\* the circles the first run emitted, each with the construction line that
\* was added just before it
EmittedCircleParts(first) ==
    UNION {{i - 1, i} : i \in {j \in (first.sources + 1)..Len(first.geo) :
                                   first.geo[j].kind = "circle"}}

\* C11: a second run on the sketch a first run produced leaves every emitted
\* circle and its construction line with their kind and construction flag,
\* and claims none of the source edges the first run claimed (it emits no
\* further primitive for them).
C11_RerunKeepsOutput ==
    SecondRunDone =>
        /\ \A i \in EmittedCircleParts(first_run[1]) :
               /\ geometry[i].kind = first_run[1].geo[i].kind
               /\ geometry[i].construction = first_run[1].geo[i].construction
        /\ (used_from_equi \cup used_from_arcs \cup used_from_colinear
                \cup used_from_splines) \cap first_run[1].used = {}
\* the edges follow one another head to tail through distinct vertices
OpenChain(es) ==
    /\ \A k \in 1..(Len(es) - 1) : es[k].end = es[k + 1].start
    /\ Cardinality({es[1].start} \cup {es[k].end : k \in 1..Len(es)}) = Len(es) + 1

TurnAngle(es, k) == vector_angle(EdgeVec(es[k]), EdgeVec(es[k + 1]))

TurnSide(es, k) ==
    EdgeVec(es[k])[1] * EdgeVec(es[k + 1])[2] - EdgeVec(es[k])[2] * EdgeVec(es[k + 1])[1]

\* a polygonal approximation of an arc: at least MinArcRun edges in a chain,
\* of lengths equal within the length tolerance, that turn to one side by
\* angles that differ from one another by less than the angle tolerance
ArcApproximation(es) ==
    /\ Len(es) >= MinArcRun
    /\ OpenChain(es)
    /\ \A i, j \in 1..Len(es) :
           Abs(calculate_edge_length(es[i]) - calculate_edge_length(es[j])) <= LengthTol
    /\ \A k \in 1..(Len(es) - 2) :
           Abs(TurnAngle(es, k + 1) - TurnAngle(es, k)) < ArcAngleTol
    /\ \/ \A k \in 1..(Len(es) - 1) : TurnSide(es, k) > 0
       \/ \A k \in 1..(Len(es) - 1) : TurnSide(es, k) < 0

ArcsEmitted == {i \in 1..Len(geometry) : geometry[i].kind = "arc"}

\* C12: a polygonal arc approximation (connected edges of equal length
\* within 1e-3 whose consecutive turn angles differ by less than 1.5
\* degrees) is recognised by a run in which nothing raises as exactly one arc
\* run that covers all of its edges.
C12_ArcRunRecognised ==
    (rp_pc = "done" /\ txn = "committed" /\ rp_raised = {} /\ first_run = <<>>
        /\ ArcApproximation(rawEdges))
        => /\ used_from_arcs = 1..Len(rawEdges)
           /\ Cardinality(ArcsEmitted) = 1

(***************************************************************************)
(* Properties of the analyzer                                              *)
(***************************************************************************)
\* the vertices joined to the vertices seen by one more edge
Expand(pairs, seen) == seen \cup {p[2] : p \in {q \in pairs : q[1] \in seen}}

RECURSIVE ReachableFrom(_, _)
ReachableFrom(pairs, seen) ==
    IF Expand(pairs, seen) \subseteq seen THEN seen
    ELSE ReachableFrom(pairs, Expand(pairs, seen))

\* the end-point pairs of the normal edges other than i
OtherEdgePairs(geo, normal, i) ==
    UNION {BothWays({<<StartCoord(geo, j), EndCoord(geo, j)>>}) :
              j \in {m \in Range(normal) \ {i} : ProperEdge(geo, m)}}

\* the edge lies on a closed loop: its end is reached from its start over
\* other edges
OnClosedLoop(geo, normal, i) ==
    /\ ProperEdge(geo, i)
    /\ EndCoord(geo, i)
           \in ReachableFrom(OtherEdgePairs(geo, normal, i), {StartCoord(geo, i)})

\* the phase was called and no exception was raised inside it
PhaseCompleted(phase) ==
    \E k \in 1..Len(phases_run) : phases_run[k] = phase /\ an_faults[k] = NoFault

ReportedBy(phase, i) ==
    \E k \in 1..Len(phase_results) :
        /\ phase_results[k].phase = phase
        /\ \E m \in 1..Len(phase_results[k].issues) : phase_results[k].issues[m].geo_idx = i

EdgesWithEnds == {i \in Range(normal_geometry) : HasEnds(geometry, i)}

\* C4: phase 3 reports a normal edge as a bridge exactly when the edge lies
\* on no closed loop of the sketch and both of its end points have another
\* graph connection.
C4_BridgeExactly ==
    PhaseCompleted("3") =>
        \A i \in EdgesWithEnds :
            ReportedBy("3", i) <=>
                /\ ~OnClosedLoop(geometry, normal_geometry, i)
                /\ BothEndsConnected(geometry, connectivity_graph.graph, i)

\* C5: phase 4 reports an edge as a subdivision exactly when both of its end
\* points have degree greater than 2 and the edge lies on a closed loop.
C5_SubdivisionExactly ==
    PhaseCompleted("4") =>
        \A i \in EdgesWithEnds :
            ReportedBy("4", i) <=>
                /\ Degree(connectivity_graph.graph, StartCoord(geometry, i)) > 2
                /\ Degree(connectivity_graph.graph, EndCoord(geometry, i)) > 2
                /\ OnClosedLoop(geometry, normal_geometry, i)

\* C6: phase 2 reports a normal edge as orphaned exactly when neither of its
\* end points has a graph connection other than the edge itself.
C6_OrphanedExactly ==
    PhaseCompleted("2") =>
        \A i \in EdgesWithEnds :
            ReportedBy("2", i) <=>
                ~(\/ OtherConnections(connectivity_graph.graph, StartCoord(geometry, i),
                                      EndCoord(geometry, i)) > 0
                  \/ OtherConnections(connectivity_graph.graph, EndCoord(geometry, i),
                                      StartCoord(geometry, i)) > 0)

PhaseOrder == <<"1", "2", "2.5", "3", "4", "5">>

IsPrefix(s, t) == Len(s) <= Len(t) /\ \A k \in 1..Len(s) : s[k] = t[k]

Phase1FailureStored ==
    \E k \in 1..Len(phase_results) :
        phase_results[k].phase = "1" /\ ~phase_results[k].success

\* C7: in one analyze() call the phases run at most once and in the order
\* 1, 2, 2.5, 3, 4, 5; when phase 1 fails no later phase runs and only the
\* result of phase 1 is recorded and returned.
C7_PhasesInOrder ==
    /\ IsPrefix(phases_run, PhaseOrder)
    /\ Len(phase_results) = Len(phases_run)
    /\ Phase1FailureStored =>
           /\ phases_run = <<"1">>
           /\ an_pc \in {"collect", "returned"}
           /\ an_pc = "returned" => an_result = ByType(phase_results[1].issues)

C7_Witness ==
    /\ an_pc = "returned"
    /\ phases_run = <<"1">>
    /\ ~phase_results[1].success

\* the issues a phase finds in the sketch when nothing raises
FoundBy(phase) ==
    CASE phase = "1" -> phase1_issues(geometry, normal_geometry, bspline_resolution_map)
      [] phase = "2" -> phase2_issues(geometry, normal_geometry, connectivity_graph)
      [] phase = "2.5" -> phase25_issues(geometry, normal_geometry)
      [] phase = "3" -> phase3_issues(geometry, constraints, normal_geometry,
                                      connectivity_graph)
      [] phase = "4" -> phase4_issues(geometry, constraints, normal_geometry,
                                      connectivity_graph)
      [] phase = "5" -> phase5_issues(geometry, normal_geometry, connectivity_graph,
                                      constraint_graph)

\* the issues recorded before the exception
RecordedBefore(issues, fault) ==
    [k \in 1..(IF fault = NoFault THEN Len(issues) ELSE Min2(fault[1], Len(issues))) |->
        issues[k]]

RECURSIVE ExpectedIssues(_)
ExpectedIssues(k) ==
    IF k > Len(PhaseOrder) THEN <<>>
    ELSE RecordedBefore(FoundBy(PhaseOrder[k]), an_faults[k]) \o ExpectedIssues(k + 1)

\* C8: an exception raised inside one of the phases 2 to 5 is caught in that
\* phase: every phase still runs and analyze() returns the issues of the
\* other phases together with those the failing phase recorded before the
\* exception.
C8_PhaseExceptionsCaught ==
    (an_pc = "returned" /\ ~Phase1FailureStored) =>
        /\ phases_run = PhaseOrder
        /\ an_result = ByType(ExpectedIssues(1))

C8_Witness ==
    /\ an_pc = "returned"
    /\ Len(phases_run) = Len(PhaseOrder)
    /\ \E k \in 2..(Len(PhaseOrder) - 1) :
        /\ Raises(an_faults[k])
        /\ phase_results[k].issues # <<>>
        /\ Len(phase_results[k].issues) < Len(FoundBy(PhaseOrder[k]))
        /\ \E m \in (k + 1)..Len(PhaseOrder) : phase_results[m].issues # <<>>

(***************************************************************************)
(* Properties of the fix actions                                           *)
(***************************************************************************)
AllChangesMade ==
    IF fix_action = "make_section_construction"
    THEN \A k \in 1..Len(fix_indices) : geometry[fix_indices[k]].construction
    ELSE Len(geometry) = Len(snapshot.geo) - Len(fix_indices)

\* C10: a fix action commits all the changes it set out to make, or aborts
\* and leaves the sketch as it was; it never commits a part of them.
C10_FixAllOrNothing ==
    fix_pc = "done" =>
        /\ txn \in {"committed", "aborted"}
        /\ txn = "committed" => fix_skipped = {} /\ AllChangesMade
        /\ txn = "aborted" => geometry = snapshot.geo /\ constraints = snapshot.cons

(***************************************************************************)
(* Properties of the colinear lines, the remaining edges and the final     *)
(* coincidence pass                                                        *)
(***************************************************************************)
\* the vertices of the edges of the run
RunVertices(es, run) == UNION {{es[k].start, es[k].end} : k \in Range(run)}

\* p lies on the segment from a to b, for a point p of the line through
\* them; endpoints on one grid node are one vertex of the run
OnSegment(a, b, p) ==
    IF a[1] = b[1] /\ a[2] = b[2]
    THEN p[1] = a[1] /\ p[2] = a[2]
    ELSE /\ (p[1] - a[1]) * (b[1] - a[1]) + (p[2] - a[2]) * (b[2] - a[2]) >= 0
         /\ (p[1] - b[1]) * (a[1] - b[1]) + (p[2] - b[2]) * (a[2] - b[2]) >= 0

\* the line drawn for the run joins the two extreme vertices of the run: no
\* vertex of the run lies beyond an end of the line
JoinsExtremes(es, run) ==
    \A p \in RunVertices(es, run) :
        OnSegment(ColinearLineEnds(es, run)[1], ColinearLineEnds(es, run)[2], p)

\* C13: for every colinear run, the line draw_colinear_lines draws joins the
\* two extreme vertices of the run (the first and the last vertex of the
\* chain of merged edges), whichever edge was the seed and on whichever side
\* the run was extended.
C13_ColinearLineJoinsExtremes ==
    \A k \in 1..Len(colinear_runs) : JoinsExtremes(edges, colinear_runs[k])

\* the edges the four detectors claimed
ClaimedEdges == used_from_equi \cup used_from_arcs \cup used_from_colinear \cup used_from_splines

\* a first run on the sketch has committed; the source edges are the line
\* segments the sketch held when the transaction was opened, source edge k
\* being geometry k
FirstRunCommitted == rp_pc = "done" /\ txn = "committed" /\ first_run = <<>>

\* C14: at the end of a run every source edge that none of the four detectors
\* claimed is still in the sketch and is normal (not construction) geometry,
\* and no source edge has been deleted.
C14_UnclaimedEdgesNormal ==
    FirstRunCommitted =>
        /\ Len(geometry) >= Len(snapshot.geo)
        /\ \A k \in 1..Len(snapshot.geo) :
               /\ geometry[k].kind = snapshot.geo[k].kind
               /\ geometry[k].pts = snapshot.geo[k].pts
               /\ k \notin ClaimedEdges => ~geometry[k].construction

\* the pairs of geometry points the Coincident constraints join, both ways
ConstrainedPairs(cons) ==
    UNION {{<<<<cons[k].first, cons[k].firstPos>>, <<cons[k].second, cons[k].secondPos>>>>,
            <<<<cons[k].second, cons[k].secondPos>>, <<cons[k].first, cons[k].firstPos>>>>} :
               k \in {m \in 1..Len(cons) : cons[m].type = "Coincident"}}

\* the endpoints p and q are joined by a chain of Coincident constraints
TiedByCoincident(cons, p, q) ==
    <<q.geo_idx, q.pos>> \in ReachableFrom(ConstrainedPairs(cons), {<<p.geo_idx, p.pos>>})

\* C15: after the final coincidence pass any two endpoints of different normal
\* geometries that are within 5e-6 of each other are tied by Coincident
\* constraints, every endpoint of a coordinate group being constrained to the
\* first-seen endpoint of the group.
C15_NearEndpointsTied ==
    (FirstRunCommitted /\ "coincident" \notin rp_raised) =>
        \A p, q \in Range(get_all_endpoints(geometry)) :
            (p.geo_idx # q.geo_idx /\ WithinCoincidentTol(p.coordinate, q.coordinate))
                => TiedByCoincident(constraints, p, q)

(***************************************************************************)
(* Properties of the subdivision labels                                    *)
(***************************************************************************)
\* the issues phase 4 recorded
SubdivisionIssues ==
    phase_results[CHOOSE k \in 1..Len(phase_results) : phase_results[k].phase = "4"].issues

\* the edge belongs to a loop that has the largest perimeter of the loops of
\* its loop group, the loops being those _find_all_loops returns
InLargestLoopOfGroup(geo, all_loops, i) ==
    \E loop \in all_loops :
        /\ i \in loop
        /\ loop \in LargestLoops(geo, LoopGroupOf(geo, all_loops, {loop}))

\* C16: a reported subdivision edge is labelled WEAK exactly when it belongs
\* to a loop of the largest perimeter within its loop group, and STRONG
\* otherwise; for a rectangle bisected by one internal chord the chord is the
\* only reported edge and it is labelled STRONG.
C16_SubdivisionConfidence ==
    PhaseCompleted("4") =>
        /\ \A k \in 1..Len(SubdivisionIssues) :
               subdivision_confidence[k] = "WEAK"
                   <=> InLargestLoopOfGroup(geometry,
                           find_all_loops(geometry, constraints, normal_geometry),
                           SubdivisionIssues[k].geo_idx)
        /\ geometry \in BisectedRectangles =>
               /\ Len(SubdivisionIssues) = 1
               /\ SubdivisionIssues[1].geo_idx = Len(geometry)
               /\ subdivision_confidence = <<"STRONG">>

(***************************************************************************)
(* Properties of the connectivity graph of phase 1                         *)
(***************************************************************************)
\* phase 1 has built self.connectivity_graph
GraphBuilt == PhaseCompleted("1")

\* the constraints that tie an end point of a B-spline to the centre of a
\* construction circle
EndpointAlignments(geo, cons) ==
    {k \in 1..Len(cons) :
        /\ cons[k].type = "InternalAlignment"
        /\ ConstraintOk(geo, cons[k])
        /\ geo[cons[k].first].kind = "circle"
        /\ geo[cons[k].first].construction
        /\ cons[k].firstPos = 3
        /\ geo[cons[k].second].kind = "bspline"
        /\ cons[k].secondPos \in {1, 2}}

\* the vertices that a Coincident constraint joins to the point
CoincidentWith(geo, cons, coord) == MapGet(CoincidentPairs(geo, cons), coord)

\* the two vertices are one vertex of the graph or neighbours in it
Connected(pairs, a, b) == a = b \/ <<a, b>> \in pairs

AlignedEndConnected(geo, cons, pairs, k) ==
    \A v \in CoincidentWith(geo, cons, FirstPoint(geo, cons[k])) :
        Connected(pairs, SecondPoint(geo, cons[k]), v)

\* the statement of C17 for every B-spline, whatever its end points and its
\* construction flag
C17_AsClaimed ==
    GraphBuilt =>
        \A k \in EndpointAlignments(geometry, constraints) :
            AlignedEndConnected(geometry, constraints, connectivity_graph.graph, k)

\* C17: in the connectivity graph of phase 1, whenever an end point of a
\* normal B-spline with two distinct end points is tied by InternalAlignment
\* to the centre of a construction circle, every vertex Coincident with that
\* centre is connected to the end point of the spline.
C17_SplineEndConnected ==
    GraphBuilt =>
        \A k \in EndpointAlignments(geometry, constraints) :
            (~geometry[constraints[k].second].construction
                 /\ ProperEdge(geometry, constraints[k].second))
                => AlignedEndConnected(geometry, constraints, connectivity_graph.graph, k)

\* a normal open spline whose aligned end is joined to a vertex that is
\* Coincident with the centre and lies at other coordinates than both
C17_Witness ==
    /\ GraphBuilt
    /\ \E k \in EndpointAlignments(geometry, constraints) :
        /\ ~geometry[constraints[k].second].construction
        /\ ProperEdge(geometry, constraints[k].second)
        /\ FirstPoint(geometry, constraints[k]) # SecondPoint(geometry, constraints[k])
        /\ \E v \in CoincidentWith(geometry, constraints, FirstPoint(geometry, constraints[k])) :
            /\ v # SecondPoint(geometry, constraints[k])
            /\ v # FirstPoint(geometry, constraints[k])
            /\ <<SecondPoint(geometry, constraints[k]), v>> \in connectivity_graph.graph

\* how often w is listed in the entry of build_graph's graph
TimesListed(entry, w) == Cardinality({k \in 1..Len(entry.nbrs) : entry.nbrs[k] = w})

\* the input edges of build_graph that join v and w
EdgesJoining(es, v, w) ==
    {i \in 1..Len(es) : {es[i].start, es[i].end} = {v, w}}

EdgeEnds(es) == UNION {{es[i].start, es[i].end} : i \in 1..Len(es)}

\* graph of build_graph: the vertices of the graph are the ends of the edges
\* with two distinct ends, each has one entry, and its entry lists a
\* neighbour once for each input edge that joins the two and never itself
ReconstructionGraphExact ==
    /\ {graph[n].v : n \in 1..Len(graph)}
           = {v \in EdgeEnds(edges) : \E w \in EdgeEnds(edges) :
                                         w # v /\ EdgesJoining(edges, v, w) # {}}
    /\ \A n \in 1..Len(graph) :
        /\ \A m \in 1..Len(graph) : graph[m].v = graph[n].v => m = n
        /\ TimesListed(graph[n], graph[n].v) = 0
        /\ \A w \in (Range(graph[n].nbrs) \cup EdgeEnds(edges)) \ {graph[n].v} :
               TimesListed(graph[n], w)
                   = Cardinality(EdgesJoining(edges, graph[n].v, w))

\* the pairs of end points of the normal edges whose end points differ
InputPairs(geo, normal) ==
    BothWays({<<StartCoord(geo, i), EndCoord(geo, i)>> :
                 i \in {j \in Range(normal) : ProperEdge(geo, j)}})

\* graph of phase 1: its pairs are the pairs of end points of the proper
\* normal edges, none joins a vertex to itself, and edge_map gives every
\* pair a geometry that has the two vertices as its end points
DiagnosisGraphExact ==
    PhaseCompleted("1") =>
        /\ connectivity_graph.graph = InputPairs(geometry, normal_geometry)
        /\ \A pair \in connectivity_graph.graph :
            /\ pair[1] # pair[2]
            /\ {pair[1], pair[2]}
                   = {StartCoord(geometry, connectivity_graph.edge_map[pair]),
                      EndCoord(geometry, connectivity_graph.edge_map[pair])}

\* C18: in the graph of build_graph and in the connectivity graph of phase 1
\* the graph edges are exactly the input edges with two distinct end points,
\* each joining its own two end points: no vertex is its own neighbour and
\* no edge is given a graph edge to a vertex that is not one of its ends.
C18_GraphEdgesAreInputEdges == ReconstructionGraphExact /\ DiagnosisGraphExact

(***************************************************************************)
(* Properties of the loops of _find_all_loops                              *)
(***************************************************************************)
\* the vertex graph and the edge map that _find_all_loops walks
LoopGraph == build_geometry_connection_graph(geometry, constraints, normal_geometry)

\* the two vertices that the graph joins by geometry i, {} if by none
GraphKeyOf(gd, i) == UNION {key \in DOMAIN gd.edge_map : gd.edge_map[key] = i}

\* the edges of the loop that end at the vertex
LoopEdgesAt(gd, loop, v) == {i \in loop : v \in GraphKeyOf(gd, i)}

LoopPairs(gd, loop) ==
    {<<a, b>> \in UNION {GraphKeyOf(gd, i) \X GraphKeyOf(gd, i) : i \in loop} : a # b}

LoopVerticesIn(gd, loop) == UNION {GraphKeyOf(gd, i) : i \in loop}

\* every vertex is left once and entered once, and the walk along the edges
\* from it reaches all the others
OneChain(gd, loop, pairs, vs) ==
    \A v \in vs :
        /\ Cardinality(LoopEdgesAt(gd, loop, v)) = 2
        /\ ReachableFrom(pairs, {v}) = vs

\* the edges are edges of the graph between distinct pairs of vertices, as
\* many as the vertices they touch, and they make one closed chain
ClosedCycle(gd, loop) ==
    /\ \A i \in loop : Cardinality(GraphKeyOf(gd, i)) = 2
    /\ \A i, j \in loop : GraphKeyOf(gd, i) = GraphKeyOf(gd, j) => i = j
    /\ Cardinality(LoopVerticesIn(gd, loop)) = Cardinality(loop)
    /\ OneChain(gd, loop, LoopPairs(gd, loop), LoopVerticesIn(gd, loop))

SimpleCycles(gd, loops) ==
    \A loop \in loops : Cardinality(loop) >= 3 /\ ClosedCycle(gd, loop)

\* C19: every loop that _find_all_loops returns is a closed cycle of at
\* least 3 distinct edges that comes back to its start vertex, with no edge
\* and no vertex passed twice.
C19_LoopsAreSimpleCycles ==
    SimpleCycles(LoopGraph, find_all_loops(geometry, constraints, normal_geometry))

\* phase 4 has run on a sketch with loops, one of them of more than 3 edges
C19_Witness ==
    /\ PhaseCompleted("4")
    /\ \E loop \in find_all_loops(geometry, constraints, normal_geometry) :
           Cardinality(loop) > 3

\* C20: two runs of the loop enumeration on the same graph give the same set
\* of canonical loop signatures, whatever the order in which the start
\* vertices and the neighbours are visited.
C20_EnumerationOrderIndependent ==
    \A i, j \in 1..Len(loop_runs) : loop_runs[i].signatures = loop_runs[j].signatures

\* no call has recorded or returned more than max_loops loops
WithinMaxLoops ==
    \A k \in 1..Len(loop_runs) :
        /\ loop_runs[k].recorded <= max_loops
        /\ Cardinality(loop_runs[k].signatures) <= loop_runs[k].recorded

C22_OneHighlightAtMost ==
    /\ Cardinality(doc_objects) <= 1
    /\ widget = "closed" => doc_objects = {}

(***************************************************************************)
(* Properties of a session of the widget                                   *)
(***************************************************************************)
\* C23: the geometry indices that a fix action deletes or converts come from
\* an analysis of the sketch as it is when the action starts, never from an
\* analysis made before the sketch was last modified.
C23_FixUsesCurrentAnalysis ==
    fix_pc = "mutating" =>
        /\ analysis_data.geo = snapshot.geo
        /\ fix_indices = SortedDescending(Range(find_zero_length_lines(snapshot.geo)))

(***************************************************************************)
(* Colinear runs: which connected edges are merged                         *)
(***************************************************************************)
\* find_colinear_edge_runs has run and the transaction is still open
ColinearSearched == rp_pc \in {"splines", "toggle", "coincident", "commit"}

\* the line edges neither the circles nor the partial arcs claimed
UnclaimedLines ==
    {k \in 1..Len(edges) : /\ edges[k].type = "line"
                           /\ k \notin used_from_equi \cup used_from_arcs}

\* the angle between two directions as lines, whichever way each points
LineAngleBetween(a, b) ==
    Min2(Abs(a - b) % 180000, 180000 - (Abs(a - b) % 180000))

\* the direction in which edge e leaves its end point v
AngleLeaving(e, v) ==
    IF e.start = v THEN compute_angle(e)
    ELSE compute_angle([e EXCEPT !.start = e.end, !.end = e.start])

EdgesAt(v) == {k \in 1..Len(edges) : v \in {edges[k].start, edges[k].end}}

\* edges i and j are the only edges at their common vertex v and continue
\* each other through v within the colinear tolerance
ContinueStraight(i, j, v) ==
    /\ EdgesAt(v) = {i, j}
    /\ edges[i].start # edges[i].end
    /\ edges[j].start # edges[j].end
    /\ Abs(Abs(AngleLeaving(edges[i], v) - AngleLeaving(edges[j], v)) - 180000)
           <= ColinearAngleTol

SameStoredDirection(i, j) ==
    Abs(compute_angle(edges[i]) - compute_angle(edges[j])) <= ColinearAngleTol

InOneColinearRun(i, j) ==
    \E r \in 1..Len(colinear_runs) : {i, j} \subseteq Range(colinear_runs[r])

\* the edges of a run lie along the direction of one of them
RunsAlongBase ==
    \A r \in 1..Len(colinear_runs) :
        \E s \in Range(colinear_runs[r]) :
            \A k \in Range(colinear_runs[r]) :
                /\ edges[k].type = "line"
                /\ LineAngleBetween(compute_angle(edges[k]), compute_angle(edges[s]))
                       <= ColinearAngleTol

StraightPairs ==
    {p \in UnclaimedLines \X UnclaimedLines :
        /\ p[1] # p[2]
        /\ \E v \in {edges[p[1]].start, edges[p[1]].end} : ContinueStraight(p[1], p[2], v)}

\* C24: a line edge connected to a colinear run is merged into it exactly when
\* it lies along the run's base direction within 0.01 degree: every edge of a
\* run lies along the run's base direction, and two unclaimed line edges that
\* continue each other through their common vertex are merged into one run,
\* whichever way the start and the end of each edge are stored.
C24_MergedWhenColinear ==
    ColinearSearched =>
        /\ RunsAlongBase
        /\ \A p \in StraightPairs : InOneColinearRun(p[1], p[2])

\* the same for the pairs of edges stored in one direction
ColinearMergedSameDirection ==
    ColinearSearched =>
        /\ RunsAlongBase
        /\ \A p \in StraightPairs :
               SameStoredDirection(p[1], p[2]) => InOneColinearRun(p[1], p[2])

(***************************************************************************)
(* Spline runs                                                             *)
(***************************************************************************)
\* find_spline_runs has run and the transaction is still open
SplinesSearched == rp_pc \in {"toggle", "coincident", "commit"}

ShareVertex(i, j) ==
    {edges[i].start, edges[i].end} \cap {edges[j].start, edges[j].end} # {}

\* the edges of the run are different line edges that no earlier detector
\* claimed
UnclaimedRun(run) ==
    /\ \A i, j \in 1..Len(run) : run[i] = run[j] => i = j
    /\ \A i \in 1..Len(run) :
        /\ edges[run[i]].type = "line"
        /\ run[i] \notin used_from_equi \cup used_from_arcs \cup used_from_colinear

\* consecutive edges of the run share a vertex
InPathOrder(run) ==
    \A i \in 1..(Len(run) - 1) : ShareVertex(run[i], run[i + 1])

\* consecutive edges of the run, taken as lines, are at most the threshold
\* apart in direction
SmoothRun(run) ==
    \A i \in 1..(Len(run) - 1) :
        LineAngleBetween(compute_angle(edges[run[i]]), compute_angle(edges[run[i + 1]]))
            <= SplineAngleThreshold

\* C25: every spline run returned by find_spline_runs is a contiguous path of
\* at least 4 unclaimed line edges, listed in path order so that consecutive
\* edges of the run share a vertex, in which every consecutive pair of edges
\* changes direction by at most 15 degrees.
C25_SplineRunsAreSmoothPaths ==
    SplinesSearched =>
        \A r \in 1..Len(spline_runs) :
            /\ Len(spline_runs[r]) >= SplineMinRun
            /\ UnclaimedRun(spline_runs[r])
            /\ InPathOrder(spline_runs[r])
            /\ SmoothRun(spline_runs[r])

\* the same without the order of the listing
SplineRunsUnclaimedAndLong ==
    SplinesSearched =>
        \A r \in 1..Len(spline_runs) :
            /\ Len(spline_runs[r]) >= SplineMinRun
            /\ UnclaimedRun(spline_runs[r])

(***************************************************************************)
(* Phase 5: the dangling edges and their descriptions                      *)
(***************************************************************************)
\* the vertices that geometry other than i joins with vertex v
JoinedByOthers(i, v) ==
    {w \in UNION {{StartCoord(geometry, j), EndCoord(geometry, j)} :
                     j \in Range(normal_geometry) \ {i}} :
        \E j \in Range(normal_geometry) \ {i} :
            /\ ProperEdge(geometry, j)
            /\ {StartCoord(geometry, j), EndCoord(geometry, j)} = {v, w}}

\* the vertex total of the end point v of geometry i: the graph connections
\* other than the edge itself plus the direct Coincident connections
VertexTotalOf(i, v) ==
    Cardinality(JoinedByOthers(i, v)) + Cardinality(MapGet(constraint_graph.coincident, v))

EndPointOf(i, position) ==
    IF position = 1 THEN StartCoord(geometry, i) ELSE EndCoord(geometry, i)

DisconnectedEnds(i) == {position \in {1, 2} : VertexTotalOf(i, EndPointOf(i, position)) = 0}

CarriesOtherConstraint(i, position) ==
    \E k \in 1..Len(constraints) :
        /\ constraints[k].type # "Coincident"
        /\ \/ constraints[k].first = i /\ constraints[k].firstPos = position
           \/ constraints[k].second = i /\ constraints[k].secondPos = position

ExpectedDescription(i) ==
    IF \E position \in DisconnectedEnds(i) : CarriesOtherConstraint(i, position)
    THEN "Anchored but not connected"
    ELSE IF DisconnectedEnds(i) = {1, 2} THEN "No connections" ELSE "Dangling edge"

ExpectedTJunctions ==
    LET Dangling(i) == HasEnds(geometry, i) /\ DisconnectedEnds(i) # {}
    IN  SelectSeq(normal_geometry, Dangling)

\* C26: phase 5 reports a normal edge exactly when at least one of its end
\* points has vertex total 0, and describes it as 'Anchored but not
\* connected' when a disconnected end point carries a constraint of another
\* type, otherwise as 'No connections' when both end points are disconnected
\* and as 'Dangling edge' when exactly one is.
C26_DanglingEdgesReported ==
    PhaseCompleted("5") =>
        tjunction_data = [k \in 1..Len(ExpectedTJunctions) |->
                             <<ExpectedTJunctions[k], ExpectedDescription(ExpectedTJunctions[k])>>]

\* every description phase 5 gives is the one expected from the ends it found
\* disconnected
DescriptionsAsExpected ==
    PhaseCompleted("5") =>
        \A k \in 1..Len(tjunction_data) :
            \/ tjunction_data[k][2] = ExpectedDescription(tjunction_data[k][1])
            \/ DisconnectedEnds(tjunction_data[k][1]) = {}

(***************************************************************************)
(* The path-length bound of the loop enumeration                           *)
(***************************************************************************)
\* the simple cycles of 3 or more edges of the graph, as sets of edges
GraphCycles(gd, normal) ==
    {loop \in SUBSET Range(normal) : Cardinality(loop) >= 3 /\ ClosedCycle(gd, loop)}

EveryCycleAmong(gd, normal, signatures) ==
    \A loop \in GraphCycles(gd, normal) : loop \in signatures

\* C27: the bound max_path_length never keeps a loop from being found: a call
\* of _find_all_loops that was not stopped at max_loops returns every simple
\* cycle of 3 or more edges of the graph, a cycle that uses every normal edge
\* of the sketch included.
C27_PathBoundHidesNoLoop ==
    \A k \in 1..Len(loop_runs) :
        loop_runs[k].recorded < max_loops =>
            EveryCycleAmong(LoopGraph, normal_geometry, loop_runs[k].signatures)

\* the same for the cycles that leave out a normal edge of the sketch
ShorterCyclesFound ==
    \A k \in 1..Len(loop_runs) :
        loop_runs[k].recorded < max_loops =>
            \A loop \in GraphCycles(LoopGraph, normal_geometry) :
                Cardinality(loop) < Len(normal_geometry) => loop \in loop_runs[k].signatures

(***************************************************************************)
(* The circles of the closed equilateral loops                             *)
(***************************************************************************)
\* the circle step of the run is over: the run goes on, or the step raised
CircleStepOver ==
    \/ rp_pc = "arcs"
    \/ rp_pc = "done" /\ "equilateral" \in rp_raised

SourcePairs ==
    UNION {BothWays({<<edges[k].start, edges[k].end>>}) : k \in 1..Len(edges)}

SourceEdgesAt(v) == {k \in 1..Len(edges) : v \in {edges[k].start, edges[k].end}}

\* the vertices joined with v form a closed loop of edges of one length:
\* at least 3 vertices, two edges at each
ClosedEquilateralLoop(vs) ==
    /\ Cardinality(vs) >= MinPolyVertices
    /\ \A v \in vs : Cardinality(SourceEdgesAt(v)) = 2
    /\ \A v, w \in vs : \A i \in SourceEdgesAt(v), j \in SourceEdgesAt(w) :
           Abs(calculate_edge_length(edges[i]) - calculate_edge_length(edges[j])) <= LengthTol

EquilateralLoopsOf(pairs) ==
    {vs \in {ReachableFrom(pairs, {p[1]}) : p \in pairs} : ClosedEquilateralLoop(vs)}

\* what the run has added to the sketch
AddedGeometry == SubSeq(geometry, Len(snapshot.geo) + 1, Len(geometry))

AddedConstraints == SubSeq(constraints, Len(snapshot.cons) + 1, Len(constraints))

NumberOf(s, Test(_)) == Cardinality({k \in 1..Len(s) : Test(s[k])})

EmittedPerLoop(n) ==
    LET IsCircle(g) == g.kind = "circle" /\ ~g.construction
        IsCentreLine(g) == g.kind = "line" /\ g.construction
        IsBlock(c) == c.type = "Block"
        IsRadius(c) == c.type = "Radius"
    IN  /\ NumberOf(AddedGeometry, IsCircle) = n
        /\ NumberOf(AddedGeometry, IsCentreLine) = n
        /\ NumberOf(AddedConstraints, IsBlock) = n
        /\ NumberOf(AddedConstraints, IsRadius) = n

\* C28: for each closed equilateral loop in the input a reconstruction run
\* emits exactly one circle, with one construction line, one Block and one
\* Radius constraint, whatever the number of edges of the loop and whichever
\* vertex the greedy walk starts from.
C28_OneCirclePerLoop ==
    CircleStepOver => EmittedPerLoop(Cardinality(EquilateralLoopsOf(SourcePairs)))

\* the same for the loops whose centre is not the origin of the sketch
OneCirclePerLoopOffOrigin ==
    (CircleStepOver /\ \A k \in 1..Len(equi) : best_fit_circle(equi[k].vertices).center # Origin)
        => EmittedPerLoop(Cardinality(EquilateralLoopsOf(SourcePairs)))

(***************************************************************************)
(* The calls that end a transaction                                        *)
(***************************************************************************)
\* no abortTransaction after the commitTransaction of the transaction
NoAbortAfterCommit ==
    \A i, j \in 1..Len(txn_calls) :
        i < j => ~(txn_calls[i] = "commit" /\ txn_calls[j] = "abort")

\* the reconstruction run has ended its transaction by a commit or an abort
RunEndedOnce == rp_pc = "done" => txn \in {"committed", "aborted"}

\* C29: for every transaction that a reconstruction run or a Wire Doctor fix
\* action opens, exactly one of commitTransaction and abortTransaction is
\* called afterwards, and abortTransaction is never called once the
\* transaction has been committed, also when the re-analysis after the
\* commit fails.
C29_TransactionEndedOnce ==
    /\ fix_pc = "done" => Len(txn_calls) = 1
    /\ NoAbortAfterCommit
    /\ RunEndedOnce

\* up to the re-analysis a fix action has made at most one of the two calls
OneCallBeforeReanalysis ==
    /\ fix_pc \in {"mutating", "reanalyze"} => Len(txn_calls) <= 1
    /\ fix_pc = "reanalyze" => txn_calls = <<"commit">>
    /\ RunEndedOnce

(***************************************************************************)
(* 'Delete All Recommended' on the duplicate groups                        *)
(***************************************************************************)
DeletingRecommended == fix_action = "delete_recommended_duplicates" /\ fix_pc # "idle"

\* the members of the group that the action does not set out to delete
KeptOf(group) == Range(group) \ Range(fix_indices)

OneKept(group) == Cardinality(KeptOf(group)) = 1

\* the member kept carries at least as many constraints as each member that
\* is deleted
KeptIsMostConstrained(cons, group) ==
    \A m \in KeptOf(group) : \A d \in Range(group) \cap Range(fix_indices) :
        count_constraints(cons, m) >= count_constraints(cons, d)

GroupsKeepBest(cons, groups) ==
    \A k \in 1..Len(groups) : OneKept(groups[k]) /\ KeptIsMostConstrained(cons, groups[k])

\* C30: in every duplicate group 'Delete All Recommended' removes the least
\* constrained members: exactly one member of the group is kept, and it
\* carries at least as many constraints as each member that is deleted.
C30_RecommendedKeepsMostConstrained ==
    DeletingRecommended =>
        GroupsKeepBest(snapshot.cons, find_duplicate_geometry(snapshot.geo, snapshot.cons))

GroupsKeepOne(groups) == \A k \in 1..Len(groups) : OneKept(groups[k])

\* exactly one member of every group is kept
RecommendedKeepsOne ==
    DeletingRecommended =>
        GroupsKeepOne(find_duplicate_geometry(snapshot.geo, snapshot.cons))

====
